---------------------------- MODULE Spec2Model ----------------------------
(***************************************************************************)
(* A model of load-bal-llamaedge-demo: the load balancer's service         *)
(* registry, weighted selection and routing (load-balancer-llamaedge,      *)
(* builds main.rs and main.v0.rs) and the watcher that reconciles the      *)
(* registry with the cluster's services (watcher/src/main.rs).             *)
(***************************************************************************)
EXTENDS Integers, Sequences, FiniteSets, TLC

VARIABLES
    build,      \* which load balancer source runs: "v0" (main.v0.rs) or "main" (main.rs)
    overflow_checks, \* whether the build panics on integer overflow (debug assertions)
    services,   \* ServiceRegistry.services: the Vec<Service> behind the RwLock
    lastCall,   \* the last registry operation that returned: [op, arg, ret, before, prev]
    conn,       \* the handle_client task of one accepted connection
    sel,        \* one call of select_service on a snapshot of any weights
    cluster,    \* the cluster's labelled services by name, with what DNS answers
    w,          \* the watcher's main loop and its sync pass
    world,      \* what may still happen around the watcher: changes, faults, ...
    rw,         \* the RwLock of the registry and the tasks that await or hold it
    rd          \* one call of read_request: the client's stream and the buffer

lbVars == <<build, overflow_checks, services, lastCall, conn>>

-----------------------------------------------------------------------------
(* Inputs *)

Names == {"X", "Y", "Z"}

\* The load balancer process's environment (main.rs reads <NAME>_SERVICE_HOST):
\* X and Y have the variable set, Z has not.  It is fixed for a process.
ServiceHostEnv == {"X", "Y"}

\* The Service values (main.v0.rs 9-15) register calls are made with: two per
\* name; X differs in weight, Y in ip, Z in port; X and Y can have weight 0.
ServiceInputs ==
    { [name |-> "X", weight |-> 0, ip |-> "10.0.0.1", port |-> 8080],
      [name |-> "X", weight |-> 3, ip |-> "10.0.0.1", port |-> 8080],
      [name |-> "Y", weight |-> 0, ip |-> "10.0.0.2", port |-> 8080],
      [name |-> "Y", weight |-> 0, ip |-> "10.0.0.9", port |-> 8080],
      [name |-> "Z", weight |-> 1, ip |-> "10.0.0.3", port |-> 8080],
      [name |-> "Z", weight |-> 1, ip |-> "10.0.0.3", port |-> 9090] }

\* struct Service of the build: main.rs keeps name and weight only.
Service(b, s) ==
    IF b = "v0" THEN s ELSE [name |-> s.name, weight |-> s.weight]

None == [none |-> TRUE]
Some(v) == [some |-> v]
IsSome(o) == o # None

-----------------------------------------------------------------------------
(* ServiceRegistry *)

NameSet(svcs) == { svcs[i].name : i \in 1..Len(svcs) }

\* mutant for C11: the search for an existing entry finds nothing
find_never(svcs, name) == 0

\* services.iter().position(|s| s.name == name), 0 when there is none
Find(svcs, name) ==
    IF \E i \in 1..Len(svcs) : svcs[i].name = name
    THEN CHOOSE i \in 1..Len(svcs) :
            /\ svcs[i].name = name
            /\ \A j \in 1..(i - 1) : svcs[j].name # name
    ELSE 0

\* services.retain(|s| s.name != name)
Retain(svcs, name) == SelectSeq(svcs, LAMBDA s : s.name # name)

\* main.rs: the address of a service comes from the process environment
get_service_address_env(name) ==
    IF name \in ServiceHostEnv THEN Some(<<name, "env">>) ELSE None

\* mutant for C1: register pushes without looking for an existing entry
register_push_always(svcs, s) == Append(svcs, s)

\* the write-locked part of register_service: replace in place, or push
register_locked(svcs, s) ==
    IF Find(svcs, s.name) # 0
    THEN [svcs EXCEPT ![Find(svcs, s.name)] = s]
    ELSE Append(svcs, s)

\* mutant for C14: a replaced entry moves to the end
register_moves_to_end(svcs, s) == Append(Retain(svcs, s.name), s)

\* main.v0.rs: register_service always inserts or replaces
register_service_v0(svcs, s) == register_locked(svcs, s)

\* main.rs: register_service returns early when the name has no address
register_service_main(svcs, s) ==
    IF get_service_address_env(s.name) = None
    THEN svcs
    ELSE register_locked(svcs, s)

register_service(b, svcs, s) ==
    IF b = "v0" THEN register_service_v0(svcs, s)
                ELSE register_service_main(svcs, s)

\* mutant for C12: unregister reports a removal whatever it found
unregister_reports_removal(svcs, name) ==
    [services |-> Retain(svcs, name), removed |-> TRUE]

\* unregister_service: the registry afterwards, and the bool returned
unregister_service(svcs, name) ==
    [services |-> Retain(svcs, name),
     removed  |-> Len(Retain(svcs, name)) < Len(svcs)]

\* list_services: a clone of the Vec
list_services(svcs) == svcs

\* main.v0.rs: the address of a service is looked up in the registry again
get_service_address_reg(svcs, name) ==
    IF Find(svcs, name) # 0
    THEN Some(<<svcs[Find(svcs, name)].ip, svcs[Find(svcs, name)].port>>)
    ELSE None

get_service_address(b, svcs, name) ==
    IF b = "v0" THEN get_service_address_reg(svcs, name)
                ELSE get_service_address_env(name)

\* the longest snapshot select_service is called with on its own
MaxLen == 4

-----------------------------------------------------------------------------
(* u32 arithmetic.  A u32 is the pair <<q, r>> that stands for q * 2^30 + r, *)
(* with q in 0..3 and r in 0..2^30-1, so that no sum leaves the integers     *)
(* the checker computes with.  Weights are u32 (main.rs 12).                 *)

Limb == 2^30

ToU32(n) == <<n \div Limb, n % Limb>>
U32Zero == <<0, 0>>
U32Lt(a, b) == a[1] < b[1] \/ (a[1] = b[1] /\ a[2] < b[2])

\* a + b: the sum modulo 2^32, and whether it left the u32 range
U32Add(a, b) ==
    LET r == a[2] + b[2]
        q == a[1] + b[1] + (r \div Limb)
    IN  [val |-> <<q % 4, r % Limb>>, overflow |-> q >= 4]

\* a - b modulo 2^32 (exact when b <= a)
U32WrappingSub(a, b) ==
    LET r == a[2] - b[2]
        borrow == IF r < 0 THEN 1 ELSE 0
    IN  <<(a[1] - b[1] - borrow + 4) % 4, (r + Limb) % Limb>>

\* u32::saturating_sub (main.v0.rs 153)
U32SaturatingSub(a, b) == IF U32Lt(a, b) THEN U32Zero ELSE U32WrappingSub(a, b)

\* choice -= service.weight (main.rs 131), where it does not underflow;
\* where it does, a build with overflow checks panics and one without wraps
U32Sub(a, b) == U32WrappingSub(a, b)

-----------------------------------------------------------------------------
(* select_service *)

\* services.iter().map(|s| s.weight).sum() as a u32: the wrapped sum of the
\* first n weights, and whether an addition overflowed
RECURSIVE SumWeights(_, _)
SumWeights(svcs, n) ==
    IF n = 0 THEN [val |-> U32Zero, overflow |-> FALSE]
    ELSE LET rest == SumWeights(svcs, n - 1)
             add  == U32Add(rest.val, ToU32(svcs[n].weight))
         IN  [val |-> add.val, overflow |-> rest.overflow \/ add.overflow]

total_weight(svcs) == SumWeights(svcs, Len(svcs))

\* mutant for C35: the saturating variant drops the draw to zero
Decrement_to_zero(b, choice, weight) ==
    IF b = "v0" THEN U32Zero ELSE U32WrappingSub(choice, weight)

\* the decrement of the walk in the build
Decrement(b, choice, weight) ==
    IF b = "v0" THEN U32SaturatingSub(choice, weight) ELSE U32Sub(choice, weight)

\* mutant for C9: the zero-total branch returns the last entry
zero_total_last(svcs) == Len(svcs)

\* total_weight == 0: return services.first()
zero_total_pick(svcs) == 1

\* the for loop from entry i on: the index returned, 0 when the loop ends
\* without returning
RECURSIVE Walk(_, _, _, _)
Walk(b, svcs, i, choice) ==
    IF i > Len(svcs) THEN 0
    ELSE IF U32Lt(choice, ToU32(svcs[i].weight)) THEN i
    ELSE Walk(b, svcs, i + 1, Decrement(b, choice, ToU32(svcs[i].weight)))

\* select_service up to the draw: what it returns without drawing, or that
\* it draws.  checks: the build panics on arithmetic overflow (debug
\* assertions), otherwise the sum wraps.
select_before_draw(svcs, checks) ==
    IF Len(svcs) = 0 THEN [kind |-> "none", idx |-> 0]
    ELSE IF total_weight(svcs).overflow /\ checks THEN [kind |-> "panic", idx |-> 0]
    ELSE IF total_weight(svcs).val = U32Zero
         THEN [kind |-> "zero_total", idx |-> zero_total_pick(svcs)]
    ELSE [kind |-> "draw", idx |-> 0]

\* select_service after rng.gen_range(0..total_weight) returned choice
select_after_draw(b, svcs, choice) ==
    IF Walk(b, svcs, 1, choice) # 0
    THEN [kind |-> "walk", idx |-> Walk(b, svcs, 1, choice)]
    ELSE [kind |-> "fallback", idx |-> 1]

\* the draws the model makes: the values next to every multiple of 2^30
DrawSpread == 2 * (MaxLen + 1)
DrawCandidates ==
    { <<q, r>> : q \in 0..3,
                 r \in (0..DrawSpread) \cup ((Limb - 1 - DrawSpread)..(Limb - 1)) }

\* rng.gen_range(0..total): the candidates below total
gen_range(total) == { d \in DrawCandidates : U32Lt(d, total) }

-----------------------------------------------------------------------------
(* handle_api_request: the control-plane routes.  A path is the sequence of *)
(* its segments; a body is what serde_json sees in it.                       *)

MalformedBody == [malformed |-> TRUE]

\* serde_json::from_slice::<RegisterRequest>(body): main.v0.rs needs name,
\* weight, ip and port, main.rs needs name and weight and ignores the rest
parse_register_request(b, body) ==
    IF b = "v0"
    THEN IF {"name", "weight", "ip", "port"} \subseteq DOMAIN body
         THEN Some([name |-> body.name, weight |-> body.weight,
                    ip |-> body.ip, port |-> body.port])
         ELSE None
    ELSE IF {"name", "weight"} \subseteq DOMAIN body
         THEN Some([name |-> body.name, weight |-> body.weight])
         ELSE None

\* ("POST", "/api/register")
api_register(b, svcs, body) ==
    LET req == parse_register_request(b, body) IN
    IF req = None THEN [services |-> svcs, status |-> "400", json |-> <<>>]
    ELSE IF b = "main" /\ get_service_address_env(req.some.name) = None
         THEN [services |-> svcs, status |-> "400", json |-> <<>>]
    ELSE [services |-> register_service(b, svcs, req.some),
          status |-> "200", json |-> <<>>]

\* mutant for C16: the DELETE route answers 200 whatever unregister returned
api_unregister_ok(svcs, name) ==
    [services |-> unregister_service(svcs, name).services, status |-> "200",
     json |-> <<>>]

\* ("DELETE", path) if path.starts_with("/api/unregister/")
api_unregister(svcs, name) ==
    [services |-> unregister_service(svcs, name).services,
     status   |-> IF unregister_service(svcs, name).removed THEN "200" ELSE "404",
     json     |-> <<>>]

\* ("GET", "/api/services"): the snapshot, serialized with the build's fields
api_services(svcs) ==
    [services |-> svcs, status |-> "200", json |-> list_services(svcs)]

handle_api_request(b, svcs, method, path, body) ==
    IF method = "POST" /\ path = <<"api", "register">>
        THEN api_register(b, svcs, body)
    ELSE IF method = "DELETE" /\ Len(path) = 3 /\ SubSeq(path, 1, 2) = <<"api", "unregister">>
        THEN api_unregister(svcs, path[3])
    ELSE IF method = "GET" /\ path = <<"api", "services">>
        THEN api_services(svcs)
    ELSE [services |-> svcs, status |-> "404", json |-> <<>>]

-----------------------------------------------------------------------------
(* The registry's operations, called by any task (bootstrap, a connection's *)
(* handler).  Each holds the write or read lock for its whole body and       *)
(* awaits nothing while holding it, so each is one step.                     *)

LastNone == [op |-> "none"]

\* the call before the one that returned last: what it was and what it returned
Brief(call) ==
    IF call.op = "none" THEN [op |-> "none"]
    ELSE [op |-> call.op, arg |-> call.arg, ret |-> call.ret, before |-> call.before]

RegisterCall(s) ==
    /\ services' = register_service(build, services, Service(build, s))
    /\ lastCall' = [op |-> "register", arg |-> Service(build, s), ret |-> "unit",
                    before |-> services, prev |-> Brief(lastCall)]
    /\ UNCHANGED <<rw, rd, build, overflow_checks, conn, sel, cluster, w, world>>

UnregisterCall(n) ==
    /\ services' = unregister_service(services, n).services
    /\ lastCall' = [op |-> "unregister", arg |-> n,
                    ret |-> unregister_service(services, n).removed,
                    before |-> services, prev |-> Brief(lastCall)]
    /\ UNCHANGED <<rw, rd, build, overflow_checks, conn, sel, cluster, w, world>>

ListCall ==
    /\ lastCall' = [op |-> "list", arg |-> "none", ret |-> list_services(services),
                    before |-> services, prev |-> Brief(lastCall)]
    /\ UNCHANGED <<rw, rd, build, overflow_checks, services, conn, sel, cluster, w, world>>

\* a mutating call as it is applied to a registry
Apply(b, svcs, call) ==
    IF call.op = "register" THEN register_service(b, svcs, call.arg)
    ELSE unregister_service(svcs, call.arg).services

\* the name a mutating call is about
CallName(call) == IF call.op = "register" THEN call.arg.name ELSE call.arg

-----------------------------------------------------------------------------
(* The RwLock around the Vec (tokio::sync::RwLock): the tasks that call      *)
(* register_service and list_services, step by step.  A writer holds the     *)
(* lock from self.services.write().await to the end of the function, a       *)
(* reader from self.services.read().await to the end of list_services.       *)
(* `*existing = service` overwrites the entry in place; it is no atomic      *)
(* store, so it is modelled as one store per field of the struct.  After     *)
(* the function returned the task is suspended on the network: the handler   *)
(* of a register request writes its response, handle_client connects to the  *)
(* backend and relays.                                                       *)

Writers == {"w1", "w2"}
Readers == {"r1", "r2"}
RwTasks == Writers \cup Readers

\* the arguments of the register calls: the two values of X differ in three
\* fields
RwInputs ==
    { [name |-> "X", weight |-> 0, ip |-> "10.0.0.1", port |-> 8080],
      [name |-> "X", weight |-> 3, ip |-> "10.0.0.7", port |-> 9090],
      [name |-> "Y", weight |-> 0, ip |-> "10.0.0.2", port |-> 8080] }

\* the fields of struct Service in declaration order
ServiceFields(b) ==
    IF b = "v0" THEN <<"name", "weight", "ip", "port">> ELSE <<"name", "weight">>

TaskIdle == [pc |-> "idle", arg |-> None, at |-> 0, todo |-> <<>>, snapshot |-> None]

\* called: the arguments of the register calls made so far
RwIdle ==
    [writer |-> "none", readers |-> {}, called |-> {},
     task |-> [t \in RwTasks |-> TaskIdle]]

\* mutant for C30: a writer does not wait for the holders of the lock
write_available_always(l) == TRUE

\* write().await completes when no task holds the lock
write_available(l) == l.writer = "none" /\ l.readers = {}

\* mutant for C13: a reader does not wait for the writer
read_available_always(l) == TRUE

\* read().await completes when no writer holds the lock
read_available(l) == l.writer = "none"

\* register_service is called (main.rs returns at once without an address)
RwRegister(t, s) ==
    /\ rw.task[t].pc = "idle"
    /\ LET arg == Service(build, s) IN
       IF build = "main" /\ get_service_address_env(arg.name) = None
       THEN rw' = [rw EXCEPT !.called = @ \cup {arg}]
       ELSE rw' = [rw EXCEPT !.called = @ \cup {arg},
                             !.task[t].pc = "write_wait",
                             !.task[t].arg = Some(arg)]
    /\ UNCHANGED <<rd, build, overflow_checks, services, lastCall, conn, sel, cluster, w, world>>

\* let mut services = self.services.write().await
RwWriteLock(t) ==
    /\ rw.task[t].pc = "write_wait"
    /\ write_available(rw)
    /\ rw' = [rw EXCEPT !.writer = t, !.task[t].pc = "find"]
    /\ UNCHANGED <<rd, build, overflow_checks, services, lastCall, conn, sel, cluster, w, world>>

\* services.iter_mut().find(..): push when there is none, else begin the
\* assignment
RwFind(t) ==
    /\ rw.task[t].pc = "find"
    /\ LET arg == rw.task[t].arg.some IN
       IF Find(services, arg.name) = 0
       THEN /\ services' = Append(services, arg)
            /\ rw' = [rw EXCEPT !.task[t].pc = "unlock"]
       ELSE /\ UNCHANGED services
            /\ rw' = [rw EXCEPT !.task[t].pc = "assign",
                                !.task[t].at = Find(services, arg.name),
                                !.task[t].todo = ServiceFields(build)]
    /\ UNCHANGED <<rd, build, overflow_checks, lastCall, conn, sel, cluster, w, world>>

\* *existing = service, one field at a time
RwAssign(t) ==
    /\ rw.task[t].pc = "assign"
    /\ LET me == rw.task[t]
           f  == Head(me.todo)
       IN  /\ services' = [services EXCEPT ![me.at][f] = me.arg.some[f]]
           /\ rw' = [rw EXCEPT !.task[t].todo = Tail(me.todo),
                               !.task[t].pc = IF Len(me.todo) = 1 THEN "unlock" ELSE "assign"]
    /\ UNCHANGED <<rd, build, overflow_checks, lastCall, conn, sel, cluster, w, world>>

\* the end of register_service: the write guard is dropped
RwWriteUnlock(t) ==
    /\ rw.task[t].pc = "unlock"
    /\ rw' = [rw EXCEPT !.writer = "none", !.task[t] = [TaskIdle EXCEPT !.pc = "io"]]
    /\ UNCHANGED <<rd, build, overflow_checks, services, lastCall, conn, sel, cluster, w, world>>

\* list_services is called
RwList(t) ==
    /\ rw.task[t].pc \in {"idle", "returned"}
    /\ rw' = [rw EXCEPT !.task[t] = [TaskIdle EXCEPT !.pc = "read_wait"]]
    /\ UNCHANGED <<rd, build, overflow_checks, services, lastCall, conn, sel, cluster, w, world>>

\* let services = self.services.read().await
RwReadLock(t) ==
    /\ rw.task[t].pc = "read_wait"
    /\ read_available(rw)
    /\ rw' = [rw EXCEPT !.readers = @ \cup {t}, !.task[t].pc = "clone"]
    /\ UNCHANGED <<rd, build, overflow_checks, services, lastCall, conn, sel, cluster, w, world>>

\* services.clone(), and the read guard is dropped: the caller has the copy
RwClone(t) ==
    /\ rw.task[t].pc = "clone"
    /\ rw' = [rw EXCEPT !.readers = @ \ {t},
                        !.task[t].pc = "returned",
                        !.task[t].snapshot = Some(list_services(services))]
    /\ UNCHANGED <<rd, build, overflow_checks, services, lastCall, conn, sel, cluster, w, world>>

\* handle_client goes on with its copy: TcpStream::connect(&address).await
\* and the writes and the copy that follow
RwConnect(t) ==
    /\ rw.task[t].pc = "returned"
    /\ rw' = [rw EXCEPT !.task[t] = [TaskIdle EXCEPT !.pc = "io"]]
    /\ UNCHANGED <<rd, build, overflow_checks, services, lastCall, conn, sel, cluster, w, world>>

\* the network operation the task was suspended on completes and the task
\* ends
RwIoDone(t) ==
    /\ rw.task[t].pc = "io"
    /\ rw' = [rw EXCEPT !.task[t] = TaskIdle]
    /\ UNCHANGED <<rd, build, overflow_checks, services, lastCall, conn, sel, cluster, w, world>>

-----------------------------------------------------------------------------
(* read_request: the bytes of the client's request arrive in any pieces; a  *)
(* byte is "h" (of a header line; the first line is a POST of the chat path  *)
(* with its three tokens), "c" (the Content-Length line), "x" (a byte of a    *)
(* header value that is not valid UTF-8), "r", "n" (carriage return, line     *)
(* feed) or "b" (of the body).                                                *)

\* the longest body a client sends, and the most header lines after the
\* request line
MaxBody == 3
MaxHeaderLines == 1

\* let mut temp_buf = [0; 1024]
TempBufLen == 1024

RECURSIVE Repeat(_, _)
Repeat(x, n) == IF n = 0 THEN <<>> ELSE <<x>> \o Repeat(x, n - 1)

Crlf == <<"r", "n">>

\* a request: the request line, extra header lines, Content-Length: N when
\* has_length, the empty line, and sent body bytes
RequestBytes(lines, has_length, sent) ==
    <<"h">> \o Crlf
    \o Repeat(<<"h">> \o Crlf, lines)
    \o (IF has_length THEN <<"c">> \o Crlf ELSE <<>>)
    \o Crlf
    \o Repeat("b", sent)

\* a request with a header value that is not UTF-8 (a Latin-1 byte)
RequestBytesLatin1(sent) ==
    <<"h">> \o Crlf \o <<"x">> \o Crlf \o <<"c">> \o Crlf \o Crlf \o Repeat("b", sent)

\* the requests of clients: with Content-Length: N the client sends N body
\* bytes; without the header it sends none; one client closes after the
\* request line, one without sending a byte, and one sends a Latin-1 header
ReadRequests ==
    { [lines |-> l, has_length |-> TRUE, length |-> n, bytes |-> RequestBytes(l, TRUE, n)]
        : l \in 0..MaxHeaderLines, n \in 0..MaxBody }
    \cup { [lines |-> l, has_length |-> FALSE, length |-> 0, bytes |-> RequestBytes(l, FALSE, 0)]
        : l \in 0..MaxHeaderLines }
    \cup { [lines |-> 0, has_length |-> FALSE, length |-> 0, bytes |-> <<"h">> \o Crlf] }
    \cup { [lines |-> 0, has_length |-> FALSE, length |-> 0, bytes |-> <<>>] }
    \cup { [lines |-> 1, has_length |-> TRUE, length |-> MaxBody,
            bytes |-> RequestBytesLatin1(MaxBody)] }

\* the length of the longest of them
MaxRequestLen == MaxBody + 3 * MaxHeaderLines + 8

RdIdle ==
    [pc |-> "idle", request |-> None, stream |-> <<>>, buffer |-> <<>>,
     reads |-> <<>>, headers |-> <<>>, body |-> <<>>]

\* buffer.windows(4).position(|window| window == b"\r\n\r\n"), 0 when none
Terminator(buffer) ==
    LET hits == { i \in 1..(Len(buffer) - 3) :
                    SubSeq(buffer, i, i + 3) = Crlf \o Crlf }
    IN  IF hits = {} THEN 0 ELSE CHOOSE i \in hits : \A j \in hits : i <= j

\* the three bytes of U+FFFD REPLACEMENT CHARACTER
Replacement == <<"u1", "u2", "u3">>

\* String::from_utf8_lossy(&buffer): an invalid byte becomes U+FFFD
RECURSIVE from_utf8_lossy(_)
from_utf8_lossy(bytes) ==
    IF bytes = <<>> THEN <<>>
    ELSE (IF bytes[1] = "x" THEN Replacement ELSE <<bytes[1]>>)
         \o from_utf8_lossy(SubSeq(bytes, 2, Len(bytes)))

\* after the loop: split_once("\r\n\r\n") on the string, and
\* buffer[body_start..] on the bytes
split_request(buffer) ==
    LET request_str == from_utf8_lossy(buffer)
        at == Terminator(request_str)
        headers == IF at = 0 THEN request_str ELSE SubSeq(request_str, 1, at - 1)
        body_start == Len(headers) + 4
    IN  [headers |-> headers,
         body |-> IF body_start < Len(buffer)
                  THEN SubSeq(buffer, body_start + 1, Len(buffer))
                  ELSE <<>>]

\* a client connects and sends a request, to a task of its own (the task of
\* the connection before it has ended)
RdBegin(req) ==
    /\ rd.pc = "idle" \/ (rd.pc = "handled" /\ conn.pc \in {"done", "panicked"})
    /\ rd' = [RdIdle EXCEPT !.pc = "reading", !.request = Some(req), !.stream = req.bytes]
    /\ conn' = [pc |-> "closed", req |-> None, snapshot |-> <<>>, how |-> "none",
                selected |-> None, address |-> None, connects |-> 0,
                status |-> "none", json |-> <<>>, wrote |-> <<>>,
                response |-> None, relayed |-> <<>>]
    /\ UNCHANGED <<rw, build, overflow_checks, services, lastCall, sel, cluster, w, world>>

\* stream.read(&mut temp_buf) returns k bytes; the loop goes on, or breaks at
\* the end of the headers and read_request returns
RdRead(k) ==
    /\ rd.pc = "reading"
    /\ k >= 1 /\ k <= Len(rd.stream) /\ k <= TempBufLen
    /\ LET buffer == rd.buffer \o SubSeq(rd.stream, 1, k)
           rest == SubSeq(rd.stream, k + 1, Len(rd.stream))
           out == split_request(buffer)
       IN  IF Terminator(buffer) # 0
           THEN rd' = [rd EXCEPT !.pc = "returned", !.stream = rest, !.buffer = buffer,
                                 !.reads = Append(@, k),
                                 !.headers = out.headers, !.body = out.body]
           ELSE rd' = [rd EXCEPT !.stream = rest, !.buffer = buffer, !.reads = Append(@, k)]
    /\ UNCHANGED <<rw, build, overflow_checks, services, lastCall, conn, sel, cluster, w, world>>

\* the client closed its side: stream.read returns 0 and the loop breaks
RdEof ==
    /\ rd.pc = "reading"
    /\ rd.stream = <<>>
    /\ rd' = [rd EXCEPT !.pc = "returned", !.reads = Append(@, 0),
                        !.headers = split_request(rd.buffer).headers,
                        !.body = split_request(rd.buffer).body]
    /\ UNCHANGED <<rw, build, overflow_checks, services, lastCall, conn, sel, cluster, w, world>>

-----------------------------------------------------------------------------
(* handle_client: one accepted connection, from the request read_request    *)
(* returned to the response.  It is suspended where it awaits the registry   *)
(* lock a second time (main.v0.rs 343) and where it awaits the connect.      *)

ChatPath == <<"v1", "chat", "completions">>

RegisterBodies ==
    ServiceInputs
    \cup { [name |-> s.name, weight |-> s.weight] : s \in ServiceInputs }
    \cup { MalformedBody }

\* the request lines and JSON bodies of the requests
RequestLines ==
    { [tokens |-> 3, method |-> m, path |-> ChatPath, body |-> MalformedBody]
        : m \in {"POST", "GET"} }
    \cup { [tokens |-> 3, method |-> "POST", path |-> <<"v1", "models">>,
            body |-> MalformedBody] }
    \cup { [tokens |-> n, method |-> "POST", path |-> ChatPath, body |-> MalformedBody]
            : n \in {1, 2, 4} }
    \cup { [tokens |-> 3, method |-> "POST", path |-> <<"api", "register">>, body |-> b]
        : b \in RegisterBodies }
    \cup { [tokens |-> 3, method |-> "DELETE", path |-> <<"api", "unregister", n>>,
            body |-> MalformedBody] : n \in Names }
    \cup { [tokens |-> 3, method |-> m, path |-> <<"api", "services">>,
            body |-> MalformedBody] : m \in {"GET", "POST"} }

\* a request as handle_client has it: the tokens of the request line, the
\* body as JSON, and the two values read_request returned (the header block
\* as a string and the body bytes)
Request(line, headers, raw_body) ==
    [tokens |-> line.tokens, method |-> line.method, path |-> line.path,
     body |-> line.body, headers |-> headers, raw_body |-> raw_body]

\* what read_request and the split of the request line give handle_client
Requests ==
    { Request(line, <<"h">> \o Crlf,
              IF line.method = "POST" /\ line.path = ChatPath THEN <<"b">> ELSE <<>>)
        : line \in RequestLines }

\* what a backend sends before it closes the connection
BackendResponses == { <<>>, <<"s", "t">> }

ConnClosed ==
    [pc |-> "closed", req |-> None, snapshot |-> <<>>, how |-> "none",
     selected |-> None, address |-> None, connects |-> 0, status |-> "none",
     json |-> <<>>, wrote |-> <<>>, response |-> None, relayed |-> <<>>]

\* listener.accept() and read_request: a new task holds a request
Accept(req) ==
    /\ conn.pc \in {"closed", "done", "panicked"}
    /\ conn' = [ConnClosed EXCEPT !.pc = "received", !.req = Some(req)]
    /\ UNCHANGED <<rw, rd, build, overflow_checks, services, lastCall, sel, cluster, w, world>>

\* headers.lines().next() and split_whitespace(): the tokens of the first
\* line of what read_request returned, none when it returned no byte
first_line(headers) ==
    [tokens |-> IF headers = <<>> THEN 0 ELSE 3, method |-> "POST",
     path |-> ChatPath, body |-> MalformedBody]

\* main.v0.rs 299: let (headers, body) = read_request(&mut stream, peer_addr)
Handoff ==
    /\ rd.pc = "returned"
    /\ conn' = [ConnClosed EXCEPT !.pc = "received",
                   !.req = Some(Request(first_line(rd.headers), rd.headers, rd.body))]
    /\ rd' = [rd EXCEPT !.pc = "handled"]
    /\ UNCHANGED <<rw, build, overflow_checks, services, lastCall, sel, cluster, w, world>>

Respond(c, code) == [c EXCEPT !.pc = "done", !.status = code]

\* after select_service returned Some(service): main.rs resolves the address
\* from the environment at once, main.v0.rs awaits the registry lock
AfterSelect(c, snap, kind, idx) ==
    LET c1 == [c EXCEPT !.snapshot = snap, !.how = kind, !.selected = Some(snap[idx])]
        addr == get_service_address_env(snap[idx].name)
    IN  IF build = "v0" THEN [c1 EXCEPT !.pc = "selected"]
        ELSE IF addr = None THEN Respond(c1, "503")
        ELSE [c1 EXCEPT !.pc = "connecting", !.address = addr]

\* mutant for C10: the empty pool is not rejected and a connect is attempted
no_backend_connects(c, snap) ==
    [c EXCEPT !.pc = "connecting", !.snapshot = snap, !.how = "none",
              !.address = Some(<<"", 0>>)]

\* select_service returned None: 503 Service Unavailable, and return
no_backend(c, snap) ==
    Respond([c EXCEPT !.snapshot = snap, !.how = "none"], "503")

\* mutant for C19: a request line of more than three tokens is accepted
request_line_lenient(req) == req.tokens >= 3

\* parts.len() != 3 is the 400; the request goes on with three tokens
request_line_ok(req) == req.tokens = 3

\* path.starts_with("/api/")
is_api_path(path) == Len(path) >= 2 /\ path[1] = "api"

\* mutant for C18: any method is proxied on the chat path
unsupported_path_only(method, path) == path # ChatPath

\* method != "POST" || path != "/v1/chat/completions"
unsupported(method, path) == method # "POST" \/ path # ChatPath

\* main.v0.rs 301-341: the request line, the routes, the snapshot and the
\* selection
Dispatch ==
    /\ conn.pc = "received"
    /\ LET req == conn.req.some
           snap == list_services(services)
           pre == select_before_draw(snap, overflow_checks)
       IN
       IF ~request_line_ok(req) THEN
            conn' = Respond(conn, "400") /\ UNCHANGED services
       ELSE IF is_api_path(req.path) THEN
            LET out == handle_api_request(build, services, req.method, req.path, req.body)
            IN  /\ conn' = [Respond(conn, out.status) EXCEPT !.json = out.json]
                /\ services' = out.services
       ELSE IF unsupported(req.method, req.path) THEN
            conn' = Respond(conn, "404") /\ UNCHANGED services
       ELSE /\ UNCHANGED services
            /\ CASE pre.kind = "none" ->
                        conn' = no_backend(conn, snap)
                 [] pre.kind = "panic" ->
                        conn' = [conn EXCEPT !.pc = "panicked", !.snapshot = snap,
                                             !.how = "panic"]
                 [] pre.kind = "zero_total" ->
                        conn' = AfterSelect(conn, snap, "zero_total", pre.idx)
                 [] pre.kind = "draw" ->
                        \E choice \in gen_range(total_weight(snap).val) :
                            LET got == select_after_draw(build, snap, choice)
                            IN  conn' = AfterSelect(conn, snap, got.kind, got.idx)
    /\ UNCHANGED <<rw, rd, build, overflow_checks, lastCall, sel, cluster, w, world>>

\* main.v0.rs 343-355: registry.get_service_address(&selected_service.name)
Resolve ==
    /\ conn.pc = "selected"
    /\ LET addr == get_service_address_reg(services, conn.selected.some.name)
       IN  conn' = IF addr = None THEN Respond(conn, "503")
                   ELSE [conn EXCEPT !.pc = "connecting", !.address = addr]
    /\ UNCHANGED <<rw, rd, build, overflow_checks, services, lastCall, sel, cluster, w, world>>

\* mutant for C22: a failed connect is tried again
connect_retries(c) == [c EXCEPT !.connects = @ + 1]

\* Err(e) of the connect: 503 Service Unavailable, and the task ends
connect_failed(c) == Respond([c EXCEPT !.connects = @ + 1], "503")

\* Ok(backend_stream): the backend will send resp and close
connect_ok(c, resp) ==
    [c EXCEPT !.pc = "write_headers", !.connects = @ + 1, !.response = Some(resp)]

\* main.v0.rs 362: TcpStream::connect(&address)
Connect(ok) ==
    /\ conn.pc = "connecting"
    /\ \/ ok /\ \E resp \in BackendResponses : conn' = connect_ok(conn, resp)
       \/ ~ok /\ conn' = connect_failed(conn)
    /\ UNCHANGED <<rw, rd, build, overflow_checks, services, lastCall, sel, cluster, w, world>>

\* an Err of write_all or copy leaves handle_client through `?`: the task
\* ends and nothing more is written to the client
Fail(c) == [c EXCEPT !.pc = "done", !.status = "error"]

\* what the three write_all calls write, in their order
write_part(c) ==
    CASE c.pc = "write_headers"   -> c.req.some.headers
      [] c.pc = "write_delimiter" -> Crlf \o Crlf
      [] c.pc = "write_body"      -> c.req.some.raw_body

\* mutant for C25: the relay begins before the body is written
after_write_skips_body(pc) ==
    CASE pc = "write_headers"   -> "write_delimiter"
      [] pc = "write_delimiter" -> "relaying"
      [] pc = "write_body"      -> "relaying"

\* the statement after each write_all
after_write(pc) ==
    CASE pc = "write_headers"   -> "write_delimiter"
      [] pc = "write_delimiter" -> "write_body"
      [] pc = "write_body"      -> "relaying"

\* main.v0.rs 364-366: backend_stream.write_all(headers), (b"\r\n\r\n"), (&body)
Forward(ok) ==
    /\ conn.pc \in {"write_headers", "write_delimiter", "write_body"}
    /\ conn' = IF ok THEN [conn EXCEPT !.wrote = @ \o write_part(conn),
                                       !.pc = after_write(conn.pc)]
               ELSE Fail(conn)
    /\ UNCHANGED <<rw, rd, build, overflow_checks, services, lastCall, sel, cluster, w, world>>

\* main.v0.rs 368: tokio::io::copy(&mut backend_stream, &mut stream), byte by
\* byte until the backend's end of stream
Relay(ok) ==
    /\ conn.pc = "relaying"
    /\ conn' = IF ~ok THEN Fail(conn)
               ELSE IF Len(conn.relayed) < Len(conn.response.some)
               THEN [conn EXCEPT !.relayed =
                        Append(@, conn.response.some[Len(conn.relayed) + 1])]
               ELSE [conn EXCEPT !.pc = "done", !.status = "relayed"]
    /\ UNCHANGED <<rw, rd, build, overflow_checks, services, lastCall, sel, cluster, w, world>>

\* the handler of another connection mutates the registry meanwhile
OtherTask ==
    /\ \/ \E s \in ServiceInputs :
            services' = api_register(build, services, s).services
       \/ \E n \in Names :
            services' = api_unregister(services, n).services
    /\ UNCHANGED <<rw, rd, build, overflow_checks, lastCall, conn, sel, cluster, w, world>>

-----------------------------------------------------------------------------
(* select_service on its own: a snapshot of up to MaxLen entries whose      *)
(* weights are any of SelWeights (a u32 that a POST /api/register body may   *)
(* carry), in both builds and with and without overflow checks.              *)

\* 2^31 - 1
BigWeight == (2^30 - 1) + 2^30
SelWeights == {0, 1, 2, BigWeight}
SelNames == <<"A", "B", "C", "D", "E", "F">>

Snapshots ==
    UNION { { [i \in 1..n |-> [name |-> SelNames[i], weight |-> ws[i]]]
                : ws \in [1..n -> SelWeights] } : n \in 0..MaxLen }

SelIdle == [pc |-> "idle", snapshot |-> <<>>, choice |-> None, result |-> None]

\* select_service up to a return without a draw, a panic, or the draw
SelBegin ==
    /\ sel.pc = "call"
    /\ LET pre == select_before_draw(sel.snapshot, overflow_checks)
       IN  sel' = [sel EXCEPT !.pc = CASE pre.kind = "draw" -> "draw"
                                       [] pre.kind = "panic" -> "panicked"
                                       [] OTHER -> "returned",
                              !.result = Some(pre)]
    /\ UNCHANGED <<rw, rd, build, overflow_checks, services, lastCall, conn, cluster, w, world>>

\* the draw and the walk
SelDraw ==
    /\ sel.pc = "draw"
    /\ \E choice \in gen_range(total_weight(sel.snapshot).val) :
          sel' = [sel EXCEPT !.pc = "returned", !.choice = Some(choice),
                             !.result = Some(select_after_draw(build, sel.snapshot, choice))]
    /\ UNCHANGED <<rw, rd, build, overflow_checks, services, lastCall, conn, cluster, w, world>>

-----------------------------------------------------------------------------
(* The cluster and the watcher's view of it (watcher/src/main.rs) *)

Absent == [absent |-> TRUE]

\* The labelled Service objects the cluster has under each name, each with
\* the address DNS resolves the name to: the llamaedge/weight annotation (a
\* string, when there is one), the declared ports, the resolved ip.
ClusterInputs ==
    { [name |-> "X", annotation |-> Some("0"), ports |-> <<8080>>, ip |-> "10.0.0.1"],
      [name |-> "X", annotation |-> Some("3"), ports |-> <<8080>>, ip |-> "10.0.0.1"],
      [name |-> "Y", annotation |-> Some("0"), ports |-> <<8080>>, ip |-> "10.0.0.2"],
      [name |-> "Y", annotation |-> Some("0"), ports |-> <<8080>>, ip |-> "10.0.0.9"],
      [name |-> "Z", annotation |-> None, ports |-> <<>>, ip |-> "10.0.0.3"],
      [name |-> "Z", annotation |-> Some("many"), ports |-> <<9090, 8080>>,
       ip |-> "10.0.0.3"] }

Clusters ==
    { cl \in [Names -> ClusterInputs \cup {Absent}] :
        \A n \in Names : cl[n] = Absent \/ cl[n].name = n }

NoCluster == [n \in Names |-> Absent]

\* what the cluster may have under a name
Variants(n) == { c \in ClusterInputs : c.name = n } \cup {Absent}

\* the order in which services.list(lp) returns the items
NameOrder == <<"X", "Y", "Z">>

\* w.parse::<u32>().ok() on the annotation strings of ClusterInputs
parse_u32(str) ==
    CASE str = "0" -> Some(0)
      [] str = "1" -> Some(1)
      [] str = "3" -> Some(3)
      [] OTHER -> None

\* annotations.get("llamaedge/weight").and_then(parse).unwrap_or(1)
service_weight(svc) ==
    IF svc.annotation = None THEN 1
    ELSE IF parse_u32(svc.annotation.some) = None THEN 1
    ELSE parse_u32(svc.annotation.some).some

\* the first declared port, 8080 when none is declared
service_port(svc) ==
    IF svc.ports = <<>> THEN 8080 ELSE Head(svc.ports)

\* lookup_host("<name>.<ns>.svc.cluster.local:<port>"): the first address,
\* none when the lookup fails or the cluster has no such service
lookup_host(cl, name, port, dns_ok) ==
    IF ~dns_ok \/ cl[name] = Absent THEN None
    ELSE Some([ip |-> cl[name].ip, port |-> port])

\* mutant for C36: register_service takes a weight it cannot parse as 0
payload_weight_default_zero(svc) ==
    IF svc.annotation = None THEN 1
    ELSE IF parse_u32(svc.annotation.some) = None THEN 0
    ELSE parse_u32(svc.annotation.some).some

\* register_service 41-44: the weight of the payload
payload_weight(svc) ==
    IF svc.annotation # None /\ parse_u32(svc.annotation.some) # None
    THEN parse_u32(svc.annotation.some).some
    ELSE 1

\* register_service 53-75: service_port = 8080, or ports.first()
payload_port(svc) ==
    IF Len(svc.ports) >= 1 THEN svc.ports[1] ELSE 8080

\* register_service 78-98: the RegisterPayload it posts, none when the lookup
\* failed or gave no address
register_payload(cl, svc, dns_ok) ==
    LET first_addr == lookup_host(cl, svc.name, payload_port(svc), dns_ok) IN
    IF first_addr = None THEN None
    ELSE Some([name |-> svc.name, weight |-> payload_weight(svc),
               ip |-> first_addr.some.ip, port |-> first_addr.some.port])

\* extract_service_info: name, weight, and the ip and port of the first
\* resolved address
extract_service_info(cl, svc, dns_ok) ==
    LET addr == lookup_host(cl, svc.name, service_port(svc), dns_ok) IN
    IF addr = None THEN None
    ELSE Some([name |-> svc.name, weight |-> service_weight(svc),
               ip |-> addr.some.ip, port |-> addr.some.port])

\* services.list(lp): the labelled services of the cluster
ListedNames(cl) == { n \in Names : cl[n] # Absent }

\* get_services: the items, or an empty Vec when the list call failed
get_services(cl, list_ok) ==
    IF list_ok THEN { cl[n] : n \in ListedNames(cl) } ELSE {}

\* res.json::<Vec<RegisteredService>>(): every item needs name, weight, ip
\* and port
parse_registered_services(json) ==
    IF \A i \in 1..Len(json) : {"name", "weight", "ip", "port"} \subseteq DOMAIN json[i]
    THEN Some({ json[i] : i \in 1..Len(json) })
    ELSE None

\* get_registered_services: Err on a transport or decoding error, an empty
\* Vec on a non-success status, the entries otherwise
get_registered_services(b, svcs, how) ==
    IF how = "transport_error" THEN None
    ELSE IF how = "http_error" THEN Some({})
    ELSE parse_registered_services(handle_api_request(b, svcs, "GET",
                                       <<"api", "services">>, MalformedBody).json)

\* the desired entries: what a fetch of the cluster gives when nothing fails
Desired(cl) ==
    { extract_service_info(cl, cl[n], TRUE).some : n \in ListedNames(cl) }

MapNames(m) == { e.name : e \in m }
MapGet(m, name) == CHOOSE e \in m : e.name = name

-----------------------------------------------------------------------------
(* sync_services_with_load_balancer: the diff of the two maps *)

\* mutant for C7: the pass registers nothing that is missing
missing_none(k8s, lb) == {}

\* 1. in the cluster but not in the load balancer: register
missing_services(k8s, lb) == MapNames(k8s) \ MapNames(lb)

\* mutant for C3: the pass removes nothing
stale_none(k8s, lb) == {}

\* 2. in the load balancer but not in the cluster: unregister
stale_services(k8s, lb) == MapNames(lb) \ MapNames(k8s)

\* mutant for C26: no entry found in both is taken as changed
needs_update_never(lb_service, k8s_service) == FALSE

\* mutant for C4: every entry found in both is taken as changed
needs_update_always(lb_service, k8s_service) == TRUE

\* 3. in both: whether the details differ
needs_update(lb_service, k8s_service) ==
    \/ lb_service.weight # k8s_service.weight
    \/ lb_service.ip # k8s_service.ip
    \/ lb_service.port # k8s_service.port

changed_services(k8s, lb) ==
    { n \in MapNames(k8s) \cap MapNames(lb) :
        needs_update(MapGet(lb, n), MapGet(k8s, n)) }

\* The calls the pass has still to issue in the loop it is in; the loops run
\* one after the other, each in the iteration order of its HashMap.
PendingCalls(p) ==
    LET todo1 == { <<"register", n>> : n \in missing_services(p.k8s, p.lb) } \ p.issued
        todo2 == { <<"unregister", n>> : n \in stale_services(p.k8s, p.lb) } \ p.issued
        todo3 == { <<"update", n>> : n \in changed_services(p.k8s, p.lb) } \ p.issued
    IN  IF todo1 # {} THEN todo1
        ELSE IF todo2 # {} THEN todo2
        ELSE todo3

\* one call of the pass on the control-plane API: the registry afterwards and
\* the status, when the request is delivered
IssueCall(b, svcs, k8s, call) ==
    IF call[1] = "unregister"
    THEN handle_api_request(b, svcs, "DELETE", <<"api", "unregister", call[2]>>,
                            MalformedBody)
    ELSE handle_api_request(b, svcs, "POST", <<"api", "register">>,
                            MapGet(k8s, call[2]))

\* register_service(svc, http, context) for one item of a list: the lookup,
\* and the POST when the name resolved and the call is not cut off
RegisterOne(b, svcs, cl, n, failing) ==
    LET payload == IF cl[n] = Absent THEN None
                   ELSE register_payload(cl, cl[n], n \notin failing)
    IN  IF payload = None \/ n \in failing THEN svcs
        ELSE handle_api_request(b, svcs, "POST", <<"api", "register">>,
                                payload.some).services

\* for svc in service_list.items, in list order from item i on
RECURSIVE RegisterListed(_, _, _, _, _)
RegisterListed(b, svcs, cl, i, failing) ==
    IF i > Len(NameOrder) THEN svcs
    ELSE CHOOSE result \in
            { RegisterListed(b, registry, cl, i + 1, failing)
                : registry \in { RegisterOne(b, svcs, cl, NameOrder[i], failing) } } : TRUE

\* reconcile_services, and the startup registration of main: nothing on a
\* list error
reconcile_services(b, svcs, cl, list_ok, failing) ==
    IF list_ok THEN RegisterListed(b, svcs, cl, 1, failing) ELSE svcs

-----------------------------------------------------------------------------
(* The watcher's main loop.  One task handles one wake at a time: the       *)
(* handler's first calls, then the sync pass call by call.                   *)

\* how many failed calls, cluster changes and writes of other clients a run
\* has at most, and how many notifications
MaxDisturbances == 1
MaxEvents == 1

Quiet == [disturbances |-> 0, events |-> 0]

WatcherOff ==
    [pc |-> "off", context |-> "none", k8s |-> {}, lb |-> {}, listed |-> {},
     list_ok |-> TRUE, fetched |-> FALSE, before |-> <<>>, issued |-> {},
     clean |-> TRUE, alone |-> TRUE, settled |-> FALSE,
     fault |-> [kind |-> "none", name |-> ""],
     wake |-> [trigger |-> "none", applied |-> FALSE], passes |-> 0,
     notified |-> None]

\* mutant for C32: a branch of the select! is taken while a handler runs
select_ready_always(p) == p.pc \in {"idle", "fetch", "sync"}

\* main 454-455: the task is at tokio::select! and takes the branch that is
\* ready; it comes back to it when the handler has run
select_ready(p) == p.pc = "idle"

\* the branch of the select! that was taken: "reconcile", "sync", or the
\* kind of the notification, and whether its call reached the load balancer
Wake(p, trigger, applied) ==
    [p EXCEPT !.wake = [trigger |-> trigger, applied |-> applied]]

\* mutant for C31: the handler returns without the sync
StartSync_skipped(p, context, same) == p

\* the handler goes on to sync_services_with_load_balancer(.., context)
StartSync(p, context, same) ==
    [p EXCEPT !.pc = "fetch", !.context = context, !.settled = @ /\ same,
              !.passes = @ + 1]

\* mutant for C33: an error of the watcher stream ends the loop
on_watcher_error_breaks(p) == [p EXCEPT !.pc = "stopped"]

\* Some(Err(err)): logged, "continuing to watch for service events..."
on_watcher_error(p) == p

\* what may fail in the calls of a list: the list call itself, or the lookup
\* or the POST of some of its items
ListFaults(cl, budget) ==
    { f \in [list_ok : BOOLEAN, failing : SUBSET ListedNames(cl)] :
        /\ ~f.list_ok => f.failing = {}
        /\ Cardinality(f.failing) + (IF f.list_ok THEN 0 ELSE 1) <= budget }

FaultCount(f) == Cardinality(f.failing) + (IF f.list_ok THEN 0 ELSE 1)

\* the registries the watcher may find when it starts: up to one entry of
\* each name, in any order
Registries ==
    UNION { { r \in [1..k -> ServiceInputs] :
                \A i, j \in 1..k : r[i].name = r[j].name => i = j } : k \in 0..3 }

\* main 392-410: the watcher process starts, next to a load balancer whose
\* registry earlier writers have left in some state, in some cluster
WatcherStarts ==
    /\ w.pc = "off"
    /\ \E registry \in Registries, cl \in Clusters :
          /\ services' = registry
          /\ cluster' = cl
    /\ w' = [w EXCEPT !.pc = "start"]
    /\ UNCHANGED <<rw, rd, build, overflow_checks, lastCall, conn, sel, world>>

\* main 412-438: the services found at startup are registered
Startup ==
    /\ w.pc = "start"
    /\ \E f \in ListFaults(cluster, world.disturbances) :
          /\ services' = reconcile_services(build, services, cluster, f.list_ok, f.failing)
          /\ world' = [world EXCEPT !.disturbances = @ - FaultCount(f)]
    /\ w' = [w EXCEPT !.pc = "idle"]
    /\ UNCHANGED <<rw, rd, build, overflow_checks, lastCall, conn, sel, cluster>>

\* sync_timer.tick()
SyncTick ==
    /\ select_ready(w)
    /\ w' = StartSync(Wake(w, "sync", TRUE), "periodic", TRUE)
    /\ UNCHANGED <<rw, rd, build, overflow_checks, services, lastCall, conn, sel, cluster, world>>

\* reconcile_timer.tick(): reconcile_services, then the sync
ReconcileTick ==
    /\ select_ready(w)
    /\ \E f \in ListFaults(cluster, world.disturbances) :
          /\ services' = reconcile_services(build, services, cluster, f.list_ok, f.failing)
          /\ world' = [world EXCEPT !.disturbances = @ - FaultCount(f)]
    /\ w' = StartSync(Wake(w, "reconcile", TRUE), "post-reconciliation",
                      services' = services)
    /\ UNCHANGED <<rw, rd, build, overflow_checks, lastCall, conn, sel, cluster>>

\* what watcher_stream.next() may give: the notification of an object the
\* name has or had, of a deletion, of another kind, or an error
Notifications ==
    { [kind |-> "applied", svc |-> s] : s \in ClusterInputs }
    \cup { [kind |-> "deleted", name |-> n] : n \in Names }
    \cup { [kind |-> "other"], [kind |-> "error"] }

\* whether a call reaches its peer: it may fail while faults are left
Outcomes(budget) == IF budget > 0 THEN BOOLEAN ELSE {TRUE}

\* event = watcher_stream.next()
Notify(ev, ok) ==
    /\ select_ready(w)
    /\ world.events > 0
    /\ world' = [world EXCEPT !.events = @ - 1,
                              !.disturbances = IF ok THEN @ ELSE @ - 1]
    /\ CASE ev.kind = "applied" ->
              LET payload == register_payload(cluster, ev.svc, ok) IN
              /\ services' = IF payload = None THEN services
                             ELSE handle_api_request(build, services, "POST",
                                      <<"api", "register">>, payload.some).services
              /\ w' = StartSync([Wake(w, "applied", payload # None)
                                    EXCEPT !.notified = Some(ev.svc)],
                                "post-registration", services' = services)
         [] ev.kind = "deleted" ->
              /\ services' = IF ~ok THEN services
                             ELSE handle_api_request(build, services, "DELETE",
                                      <<"api", "unregister", ev.name>>,
                                      MalformedBody).services
              /\ w' = IF ok THEN StartSync(Wake(w, "deleted", TRUE),
                                           "post-deregistration", services' = services)
                      ELSE Wake(w, "deleted", FALSE)
         [] ev.kind = "other" ->
              /\ ok
              /\ w' = Wake(w, "other", FALSE)
              /\ UNCHANGED services
         [] ev.kind = "error" ->
              /\ ok
              /\ w' = on_watcher_error(Wake(w, "error", FALSE))
              /\ UNCHANGED services
    /\ UNCHANGED <<rw, rd, build, overflow_checks, lastCall, conn, sel, cluster>>

\* what may fail while a pass fetches its two inputs: nothing, the list call,
\* the GET /api/services, or the lookup of one listed name
FetchFaults(cl, budget) ==
    { [kind |-> "none", name |-> ""] }
    \cup IF budget = 0 THEN {}
         ELSE { [kind |-> k, name |-> ""] : k \in {"list", "transport_error", "http_error"} }
              \cup { [kind |-> "dns", name |-> n] : n \in ListedNames(cl) }

\* mutant for C28: one lookup that fails leaves the map empty
k8s_service_map_all_or_nothing(cl, k8s_services, unresolved) ==
    IF unresolved \in { svc.name : svc \in k8s_services } THEN {}
    ELSE { extract_service_info(cl, svc, TRUE).some : svc \in k8s_services }

\* sync_services_with_load_balancer 246-253: the map of the listed services
\* whose extract_service_info gave Some
k8s_service_map(cl, k8s_services, unresolved) ==
    LET infos == { extract_service_info(cl, svc, svc.name # unresolved)
                     : svc \in k8s_services }
    IN  { i.some : i \in infos \ {None} }

\* sync_services_with_load_balancer 242-261: both states are fetched and
\* turned into maps; an Err of get_registered_services ends the pass
Fetch(fault) ==
    /\ w.pc = "fetch"
    /\ world' = [world EXCEPT !.disturbances = IF fault.kind = "none" THEN @ ELSE @ - 1]
    /\ LET k8s_services == get_services(cluster, fault.kind # "list")
           lb_services == get_registered_services(build, services, fault.kind)
       IN  w' = IF lb_services = None
                THEN [w EXCEPT !.pc = "idle", !.passes = @ - 1]
                ELSE [w EXCEPT !.pc = "sync",
                               !.fault = fault,
                               !.k8s = k8s_service_map(cluster, k8s_services, fault.name),
                               !.lb = lb_services.some,
                               !.listed = { svc.name : svc \in k8s_services },
                               !.list_ok = fault.kind # "list",
                               !.fetched = fault.kind = "none",
                               !.before = services,
                               !.issued = {},
                               !.clean = TRUE,
                               !.alone = TRUE]
    /\ UNCHANGED <<rw, rd, build, overflow_checks, services, lastCall, conn, sel, cluster>>

\* one iteration of one of the three loops: the POST or DELETE is sent; a
\* failure is logged and the loop goes on
PassCall(call, delivered) ==
    /\ w.pc = "sync"
    /\ call \in PendingCalls(w)
    /\ LET out == IssueCall(build, services, w.k8s, call) IN
       /\ services' = IF delivered THEN out.services ELSE services
       /\ w' = [w EXCEPT !.issued = @ \cup {call},
                         !.clean = @ /\ delivered /\ out.status = "200"]
    /\ world' = [world EXCEPT !.disturbances = IF delivered THEN @ ELSE @ - 1]
    /\ UNCHANGED <<rw, rd, build, overflow_checks, lastCall, conn, sel, cluster>>

\* the pass returns Ok(()) and the loop selects again
PassEnd ==
    /\ w.pc = "sync"
    /\ PendingCalls(w) = {}
    /\ w' = [WatcherOff EXCEPT !.pc = "idle", !.context = w.context,
                               !.settled = w.fetched /\ w.clean /\ w.alone]
    /\ UNCHANGED <<rw, rd, build, overflow_checks, services, lastCall, conn, sel, cluster, world>>

\* None: the stream of notifications has ended; the loop is left and main
\* returns ("watcher stopped").  It is the only exit of the loop.
StreamEnds ==
    /\ select_ready(w)
    /\ w' = [Wake(w, "ended", FALSE) EXCEPT !.pc = "stopped"]
    /\ UNCHANGED <<rw, rd, build, overflow_checks, services, lastCall, conn, sel, cluster, world>>

\* the cluster changes under the watcher: a service is created, changed or
\* deleted, or its name resolves to another address
ClusterChange(n, v) ==
    /\ w.pc # "off"
    /\ world.disturbances > 0
    /\ v # cluster[n]
    /\ cluster' = [cluster EXCEPT ![n] = v]
    /\ world' = [world EXCEPT !.disturbances = @ - 1]
    /\ w' = [w EXCEPT !.alone = FALSE, !.settled = FALSE]
    /\ UNCHANGED <<rw, rd, build, overflow_checks, services, lastCall, conn, sel>>

\* another client of the control-plane API writes to the registry
ClientCall(req) ==
    /\ w.pc # "off"
    /\ world.disturbances > 0
    /\ services' = handle_api_request(build, services, req.method, req.path,
                                      req.body).services
    /\ world' = [world EXCEPT !.disturbances = @ - 1]
    /\ w' = [w EXCEPT !.alone = FALSE, !.settled = FALSE]
    /\ UNCHANGED <<rw, rd, build, overflow_checks, lastCall, conn, sel, cluster>>

ClientRequests ==
    { [method |-> "POST", path |-> <<"api", "register">>, body |-> s]
        : s \in ServiceInputs }
    \cup { [method |-> "DELETE", path |-> <<"api", "unregister", n>>,
            body |-> MalformedBody] : n \in Names }

-----------------------------------------------------------------------------
(* Specifications *)

vars == <<build, overflow_checks, services, lastCall, conn, sel, cluster, w, world, rw, rd>>

\* the registry after ServiceRegistry::new(), and any sequence of calls
InitReg ==
    /\ build \in {"v0", "main"}
    /\ overflow_checks = FALSE
    /\ services = <<>>
    /\ lastCall = LastNone
    /\ conn = ConnClosed
    /\ sel = SelIdle
    /\ cluster = NoCluster
    /\ w = WatcherOff
    /\ world = Quiet
    /\ rw = RwIdle
    /\ rd = RdIdle

NextReg ==
    \/ \E s \in ServiceInputs : RegisterCall(s)
    \/ \E n \in Names : UnregisterCall(n)
    \/ ListCall

SpecReg == InitReg /\ [][NextReg]_vars

\* the load balancer: one connection's task among other tasks
InitLB ==
    /\ build \in {"v0", "main"}
    /\ overflow_checks \in BOOLEAN
    /\ services = <<>>
    /\ lastCall = LastNone
    /\ conn = ConnClosed
    /\ sel = SelIdle
    /\ cluster = NoCluster
    /\ w = WatcherOff
    /\ world = Quiet
    /\ rw = RwIdle
    /\ rd = RdIdle

NextLB ==
    \/ \E req \in Requests : Accept(req)
    \/ Dispatch
    \/ Resolve
    \/ \E ok \in BOOLEAN : Connect(ok)
    \/ \E ok \in BOOLEAN : Forward(ok)
    \/ \E ok \in BOOLEAN : Relay(ok)
    \/ OtherTask

SpecLB == InitLB /\ [][NextLB]_vars

\* select_service called once on any snapshot
InitSelect ==
    /\ build \in {"v0", "main"}
    /\ overflow_checks \in BOOLEAN
    /\ services = <<>>
    /\ lastCall = LastNone
    /\ cluster = NoCluster
    /\ w = WatcherOff
    /\ world = Quiet
    /\ rw = RwIdle
    /\ rd = RdIdle
    /\ conn = ConnClosed
    /\ sel \in { [SelIdle EXCEPT !.pc = "call", !.snapshot = snap] : snap \in Snapshots }

NextSelect == SelBegin \/ SelDraw

SpecSelect == InitSelect /\ [][NextSelect]_vars

\* the registry's lock: two tasks that register and one that lists
InitRW ==
    /\ build \in {"v0", "main"}
    /\ overflow_checks = FALSE
    /\ services = <<>>
    /\ lastCall = LastNone
    /\ conn = ConnClosed
    /\ sel = SelIdle
    /\ cluster = NoCluster
    /\ w = WatcherOff
    /\ world = Quiet
    /\ rw = RwIdle
    /\ rd = RdIdle

NextRW ==
    \/ \E t \in Writers, s \in RwInputs : RwRegister(t, s)
    \/ \E t \in Writers : RwWriteLock(t)
    \/ \E t \in Writers : RwFind(t)
    \/ \E t \in Writers : RwAssign(t)
    \/ \E t \in Writers : RwWriteUnlock(t)
    \/ \E t \in Readers : RwList(t)
    \/ \E t \in Readers : RwReadLock(t)
    \/ \E t \in Readers : RwClone(t)
    \/ \E t \in Readers : RwConnect(t)
    \/ \E t \in RwTasks : RwIoDone(t)

SpecRW == InitRW /\ [][NextRW]_vars

\* read_request on the requests of clients, in any pieces
InitRead ==
    /\ build \in {"v0", "main"}
    /\ overflow_checks = FALSE
    /\ services = <<Service(build, [name |-> "X", weight |-> 3,
                                    ip |-> "10.0.0.1", port |-> 8080])>>
    /\ lastCall = LastNone
    /\ conn = ConnClosed
    /\ sel = SelIdle
    /\ cluster = NoCluster
    /\ w = WatcherOff
    /\ world = Quiet
    /\ rw = RwIdle
    /\ rd = RdIdle

NextRead ==
    \/ \E req \in ReadRequests : RdBegin(req)
    \/ \E k \in 1..MaxRequestLen : RdRead(k)
    \/ RdEof
    \/ Handoff
    \/ Dispatch
    \/ Resolve
    \/ \E ok \in BOOLEAN : Connect(ok)
    \/ \E ok \in BOOLEAN : Forward(ok)
    \/ \E ok \in BOOLEAN : Relay(ok)

SpecRead == InitRead /\ [][NextRead]_vars

\* the watcher next to a main.v0.rs load balancer, in a cluster that changes
\* and with calls that fail
Init ==
    /\ build = "v0"
    /\ overflow_checks = FALSE
    /\ services = <<>>
    /\ lastCall = LastNone
    /\ conn = ConnClosed
    /\ sel = SelIdle
    /\ cluster = NoCluster
    /\ w = WatcherOff
    /\ world = [disturbances |-> MaxDisturbances, events |-> MaxEvents]
    /\ rw = RwIdle
    /\ rd = RdIdle

WatcherStep ==
    \/ Startup
    \/ \E fault \in FetchFaults(cluster, world.disturbances) : Fetch(fault)
    \/ \E call \in PendingCalls(w), delivered \in Outcomes(world.disturbances) :
          PassCall(call, delivered)
    \/ PassEnd

Next ==
    \/ WatcherStarts
    \/ WatcherStep
    \/ SyncTick
    \/ ReconcileTick
    \/ \E ev \in Notifications, ok \in Outcomes(world.disturbances) : Notify(ev, ok)
    \/ \E n \in Names : \E v \in Variants(n) : ClusterChange(n, v)
    \/ \E req \in ClientRequests : ClientCall(req)

Spec == Init /\ [][Next]_vars

\* the load balancer and the watcher side by side, with the requests, calls
\* and notifications that end in an error: the watcher starts in a cluster of
\* two labelled services next to a load balancer that has just started
ErrCluster ==
    [n \in Names |->
        CASE n = "X" -> [name |-> "X", annotation |-> Some("3"), ports |-> <<8080>>,
                         ip |-> "10.0.0.1"]
          [] n = "Y" -> [name |-> "Y", annotation |-> Some("0"), ports |-> <<8080>>,
                         ip |-> "10.0.0.2"]
          [] OTHER -> Absent]

\* a request line that is not three tokens, a chat request (for an empty
\* pool or a backend that may be unreachable), an unregister
ErrRequests ==
    { req \in Requests :
        \/ req.tokens = 1
        \/ req.tokens = 3 /\ req.method = "POST" /\ req.path = ChatPath
        \/ req.tokens = 3 /\ req.method = "DELETE" }

InitErr ==
    /\ build = "v0"
    /\ overflow_checks = FALSE
    /\ services = <<>>
    /\ lastCall = LastNone
    /\ conn = ConnClosed
    /\ sel = SelIdle
    /\ cluster = ErrCluster
    /\ w = [WatcherOff EXCEPT !.pc = "start"]
    /\ world = [disturbances |-> MaxDisturbances, events |-> MaxEvents]
    /\ rw = RwIdle
    /\ rd = RdIdle

NextErr ==
    \/ \E req \in ErrRequests : Accept(req)
    \/ Dispatch
    \/ Resolve
    \/ \E ok \in BOOLEAN : Connect(ok)
    \/ \E ok \in BOOLEAN : Forward(ok)
    \/ \E ok \in BOOLEAN : Relay(ok)
    \/ WatcherStep
    \/ SyncTick
    \/ ReconcileTick
    \/ \E ev \in Notifications, ok \in Outcomes(world.disturbances) : Notify(ev, ok)
    \/ StreamEnds

SpecErr == InitErr /\ [][NextErr]_vars

\* the watcher once the cluster has stopped changing and every call goes
\* through: notifications may still arrive late, more than once or not at all
InitLive ==
    /\ build = "v0"
    /\ overflow_checks = FALSE
    /\ services = <<>>
    /\ lastCall = LastNone
    /\ conn = ConnClosed
    /\ sel = SelIdle
    /\ cluster = NoCluster
    /\ w = WatcherOff
    /\ world = [Quiet EXCEPT !.events = MaxEvents]
    /\ rw = RwIdle
    /\ rd = RdIdle

NextLive ==
    \/ WatcherStarts
    \/ WatcherStep
    \/ SyncTick
    \/ ReconcileTick
    \/ \E ev \in Notifications, ok \in Outcomes(world.disturbances) : Notify(ev, ok)

\* the timers fire again and again, and a handler that runs goes on
LiveSpec ==
    /\ InitLive
    /\ [][NextLive]_vars
    /\ WF_vars(SyncTick)
    /\ WF_vars(ReconcileTick)
    /\ WF_vars(WatcherStep)


-----------------------------------------------------------------------------
(* Claims about the registry (SpecReg) *)

\* C1: after any sequence of register and unregister calls the registry
\* never holds two entries with the same name.
C1_UniqueNames ==
    \A i, j \in 1..Len(services) :
        services[i].name = services[j].name => i = j

\* C1 witness: a register call replaced an entry that is not the last one.
C1_Witness ==
    /\ lastCall.op = "register"
    /\ Len(services) = 3
    /\ Find(services, lastCall.arg.name) = 1
    /\ services[1] = lastCall.arg

\* C2 (as claimed): every register call that returned has inserted or
\* replaced the entry, so the next snapshot holds it with the supplied values.
C2_RegisterAlwaysInserts ==
    lastCall.op = "register" =>
        \E i \in 1..Len(list_services(services)) :
            list_services(services)[i] = lastCall.arg

\* a register call of the build goes on to the write lock: always in
\* main.v0.rs, in main.rs when the name has an address (C2)
Registers(b, name) == b = "v0" \/ get_service_address_env(name) # None

EntriesNamed(svcs, name) == { i \in 1..Len(svcs) : svcs[i].name = name }

\* the call that returned last repeats the call before it
Repeated ==
    /\ lastCall.op # "none"
    /\ lastCall.prev.op = lastCall.op
    /\ lastCall.prev.arg = lastCall.arg

\* C11: a register call with the arguments of the register call just before
\* it leaves the registry as that call left it: one entry of the name, equal
\* to the argument, and the entries of other names as they were before both.
C11_RegisterIdempotent ==
    (lastCall.op = "register" /\ Repeated) =>
        /\ services = lastCall.before
        /\ Retain(services, lastCall.arg.name)
                = Retain(lastCall.prev.before, lastCall.arg.name)
        /\ Registers(build, lastCall.arg.name) =>
                /\ Cardinality(EntriesNamed(services, lastCall.arg.name)) = 1
                /\ \A i \in EntriesNamed(services, lastCall.arg.name) :
                        services[i] = lastCall.arg

\* C11 witness: main.v0.rs registered the same value twice, changing an
\* entry between two others.
C11_Witness ==
    /\ build = "v0"
    /\ lastCall.op = "register" /\ Repeated
    /\ Len(services) = 3
    /\ EntriesNamed(services, lastCall.arg.name) = {2}
    /\ EntriesNamed(lastCall.prev.before, lastCall.arg.name) = {2}
    /\ lastCall.prev.before[2] # lastCall.arg

\* C12: unregister returns true exactly when the name was registered and then
\* the entry is gone; it returns false and changes nothing when the name is
\* absent; unregistering a registered name twice returns true, then false.
C12_UnregisterReports ==
    lastCall.op = "unregister" =>
        /\ lastCall.ret = (EntriesNamed(lastCall.before, lastCall.arg) # {})
        /\ EntriesNamed(services, lastCall.arg) = {}
        /\ lastCall.ret => Len(services) < Len(lastCall.before)
        /\ ~lastCall.ret => services = lastCall.before
        /\ (Repeated /\ EntriesNamed(lastCall.prev.before, lastCall.arg) # {}) =>
                (lastCall.prev.ret = TRUE /\ lastCall.ret = FALSE)

\* C12 witness: a registered name was unregistered twice in a row while
\* another entry stayed.
C12_Witness ==
    /\ lastCall.op = "unregister" /\ Repeated
    /\ lastCall.prev.ret = TRUE
    /\ lastCall.ret = FALSE
    /\ Len(services) = 2

\* C14: register appends a new name at the end and replaces an existing name
\* at its position, unregister removes the named entry only, and every other
\* entry keeps its value and its place in the order; a snapshot is the
\* registry in that order.
C14_OrderAndFrame ==
    LET before == lastCall.before
        at == EntriesNamed(before, lastCall.arg.name)
        gone == EntriesNamed(before, lastCall.arg)
    IN
    /\ (lastCall.op = "register" /\ Registers(build, lastCall.arg.name)) =>
            IF at = {}
            THEN /\ Len(services) = Len(before) + 1
                 /\ services[Len(services)] = lastCall.arg
                 /\ \A i \in 1..Len(before) : services[i] = before[i]
            ELSE /\ Len(services) = Len(before)
                 /\ \A i \in 1..Len(before) :
                        services[i] = IF i \in at THEN lastCall.arg ELSE before[i]
    /\ lastCall.op = "unregister" =>
            /\ Len(services) = Len(before) - Cardinality(gone)
            /\ \A i \in 1..Len(before) :
                    i \notin gone =>
                        services[i - Cardinality({ j \in gone : j < i })] = before[i]
    /\ lastCall.op = "list" => (lastCall.ret = before /\ services = before)

\* C14 witness: an unregister call removed the entry between two others,
\* after a register call had replaced an entry that was not the last.
C14_Witness ==
    /\ lastCall.op = "unregister"
    /\ Len(lastCall.before) = 3
    /\ EntriesNamed(lastCall.before, lastCall.arg) = {2}
    /\ services = <<lastCall.before[1], lastCall.before[3]>>
    /\ lastCall.prev.op = "register"
    /\ EntriesNamed(lastCall.prev.before, lastCall.prev.arg.name) = {1}
    /\ lastCall.prev.before[1] # lastCall.prev.arg

\* the two calls that returned last are a register and an unregister, or
\* two registers, of one name
SameNameCalls ==
    /\ lastCall.op \in {"register", "unregister"}
    /\ lastCall.prev.op \in {"register", "unregister"}
    /\ CallName(lastCall) = CallName(lastCall.prev)

\* C29 (as claimed): register and unregister operations on the same name
\* that race leave the registry in the same final state in every
\* interleaving: the state after the two calls is the state the other order
\* of the two would have left.
C29_OrderIndependent ==
    SameNameCalls =>
        services = Apply(build, Apply(build, lastCall.prev.before, lastCall),
                         lastCall.prev)

\* what the registry does: each call is applied as a whole under the write
\* lock, and the call that took the lock last decides about its name
C29_LastCallDecides ==
    /\ lastCall.op = "unregister" => EntriesNamed(services, lastCall.arg) = {}
    /\ (lastCall.op = "register" /\ Registers(build, lastCall.arg.name)) =>
            \E i \in 1..Len(services) :
                /\ EntriesNamed(services, lastCall.arg.name) = {i}
                /\ services[i] = lastCall.arg

\* the snapshots the readers hold
Held == { t \in Readers : rw.task[t].snapshot # None }

\* every entry of every snapshot held is the whole argument of a register call
WholeEntries ==
    \A t \in Held :
        \A i \in 1..Len(rw.task[t].snapshot.some) :
            rw.task[t].snapshot.some[i] \in rw.called

\* a snapshot that was returned stays as it is while its owner keeps it
SnapshotKept ==
    \A t \in Readers :
        (rw.task[t].pc = "returned" /\ rw'.task[t].pc = "returned") =>
            rw'.task[t].snapshot = rw.task[t].snapshot

\* C13: with register calls that replace an entry running next to snapshot
\* reads in any interleaving, every entry of every snapshot equals in all its
\* fields the argument of one register call, and a returned snapshot is not
\* changed by later mutations of the registry.
C13_NoTornEntry == []WholeEntries /\ [][SnapshotKept]_vars

\* C13 witness: a reader holds a snapshot with a replaced entry while a
\* writer is in the middle of overwriting that entry again.
C13_Witness ==
    /\ \E t \in Readers :
          /\ rw.task[t].pc = "returned"
          /\ Len(rw.task[t].snapshot.some) >= 1
          /\ rw.task[t].snapshot.some[1].weight = 3
    /\ \E t \in Writers : rw.task[t].pc = "assign" /\ rw.task[t].at = 1
    /\ services[1] \notin rw.called

\* the tasks between the acquisition of a guard and its drop
HoldsWrite(t) == rw.task[t].pc \in {"find", "assign", "unlock"}
HoldsRead(t) == rw.task[t].pc = "clone"

\* the tasks suspended on the network, and those that have not called or
\* have returned
Suspended(t) == rw.task[t].pc \in {"io", "idle", "returned"}

-----------------------------------------------------------------------------
(* Claims about selection and routing *)

\* the request the connection's task holds
Req == conn.req.some

\* the step in which handle_client answers the request it read
Answers == conn.pc = "received" /\ conn' # conn

IsRegister(req) ==
    req.tokens = 3 /\ req.method = "POST" /\ req.path = <<"api", "register">>

IsUnregister(req) ==
    /\ req.tokens = 3 /\ req.method = "DELETE"
    /\ Len(req.path) = 3 /\ SubSeq(req.path, 1, 2) = <<"api", "unregister">>

IsList(req) ==
    req.tokens = 3 /\ req.method = "GET" /\ req.path = <<"api", "services">>

IsChat(req) == req.tokens = 3 /\ req.method = "POST" /\ req.path = ChatPath

\* a JSON body with name and weight, with or without ip and port
WellFormed(body) == {"name", "weight"} \subseteq DOMAIN body

\* the registry holds an entry with every value the body gives
HoldsEntry(svcs, body) ==
    \E i \in 1..Len(svcs) :
        \A f \in DOMAIN body \cap DOMAIN svcs[i] : svcs[i][f] = body[f]

\* C15 (as claimed): POST /api/register with a well-formed body of name and
\* weight, with or without ip and port, is answered 200 and the registry then
\* holds the entry; a body that does not parse is answered 400 and the
\* registry is left as it was.
C15_RegisterRoute ==
    [][(Answers /\ IsRegister(Req)) =>
            IF WellFormed(Req.body)
            THEN conn'.status = "200" /\ HoldsEntry(services', Req.body)
            ELSE conn'.status = "400" /\ services' = services]_vars

\* C16: DELETE /api/unregister/{name} is answered 200 when the name was
\* registered, and the entry is then gone; it is answered 404 when the name
\* is absent, the registry is left as it was and the task ends normally.
C16_UnregisterRoute ==
    [][(Answers /\ IsUnregister(Req)) =>
            /\ conn'.pc = "done"
            /\ IF EntriesNamed(services, Req.path[3]) # {}
               THEN /\ conn'.status = "200"
                    /\ EntriesNamed(services', Req.path[3]) = {}
                    /\ Len(services') = Len(services) - 1
               ELSE /\ conn'.status = "404"
                    /\ services' = services]_vars

\* C16 witness: a DELETE for an absent name was answered 404 while another
\* name is registered.
C16_Witness ==
    /\ conn.pc = "done"
    /\ IsUnregister(Req)
    /\ conn.status = "404"
    /\ services # <<>>

\* C17 (as claimed): GET /api/services is answered 200 with every entry of
\* the snapshot in snapshot order, each with name, weight, ip and port so that
\* the watcher's reader of the response accepts it, and the registry is left
\* as it was.
C17_ListRoute ==
    [][(Answers /\ IsList(Req)) =>
            /\ conn'.status = "200"
            /\ services' = services
            /\ Len(conn'.json) = Len(services)
            /\ \A i \in 1..Len(services) :
                    /\ {"name", "weight", "ip", "port"} \subseteq DOMAIN conn'.json[i]
                    /\ conn'.json[i].name = services[i].name
                    /\ conn'.json[i].weight = services[i].weight
            /\ parse_registered_services(conn'.json) # None]_vars

\* C18: a request with a three-token request line that is neither POST
\* /v1/chat/completions nor one of the three control-plane routes is answered
\* 404, no backend is selected for it and no backend connection is opened.
C18_UnknownRoute404 ==
    (conn.req # None /\ Req.tokens = 3 /\ ~IsChat(Req)
        /\ ~IsRegister(Req) /\ ~IsUnregister(Req) /\ ~IsList(Req)) =>
            /\ conn.pc \in {"received", "done"}
            /\ conn.pc = "done" => conn.status = "404"
            /\ conn.how = "none" /\ conn.selected = None
            /\ conn.address = None /\ conn.connects = 0

\* C18 witness: GET on the chat path was answered while services are
\* registered.
C18_Witness ==
    /\ conn.pc = "done"
    /\ Req.tokens = 3 /\ Req.method = "GET" /\ Req.path = ChatPath
    /\ conn.status = "404"
    /\ Len(services) = 2

\* a request whose line has not three tokens: nothing is read from the
\* registry, selected or connected, and the answer is 400
Rejected ==
    (conn.req # None /\ Req.tokens # 3) =>
        /\ conn.pc \in {"received", "done"}
        /\ conn.pc = "done" => conn.status = "400"
        /\ conn.snapshot = <<>> /\ conn.json = <<>>
        /\ conn.how = "none" /\ conn.selected = None
        /\ conn.address = None /\ conn.connects = 0

\* C19: a request line that does not split into exactly three tokens is
\* answered 400 and the connection ends, without a read or a change of the
\* registry and without a backend connection.
C19_MalformedLine400 ==
    /\ []Rejected
    /\ [][(Answers /\ Req.tokens # 3) =>
            (conn'.pc = "done" /\ conn'.status = "400" /\ services' = services)]_vars

\* C19 witness: a request line of four tokens on the chat path was answered
\* 400 while services are registered.
C19_Witness ==
    /\ conn.pc = "done"
    /\ Req.tokens = 4
    /\ conn.status = "400"
    /\ Len(services) = 2

\* C20 (as claimed): for a request with Content-Length: N read_request goes
\* on reading until N body bytes have arrived, however the client's bytes are
\* split across reads, so the body handed on has exactly N bytes; without the
\* header the body is empty.
C20_ContentLengthBody ==
    rd.pc = "returned" =>
        IF rd.request.some.has_length
        THEN rd.body = Repeat("b", rd.request.some.length)
        ELSE rd.body = <<>>

\* what read_request does return: the bytes that followed the empty line in
\* the reads up to the one that completed the headers
BodyIsWhatArrived ==
    (rd.pc = "returned" /\ from_utf8_lossy(rd.buffer) = rd.buffer) =>
        /\ rd.headers \o (IF Terminator(rd.buffer) # 0 THEN Crlf \o Crlf ELSE <<>>)
                \o rd.body = rd.buffer
        /\ rd.buffer \o rd.stream = rd.request.some.bytes
        /\ Terminator(SubSeq(rd.buffer, 1,
                              Len(rd.buffer) - rd.reads[Len(rd.reads)])) = 0

\* read_request returned without having seen the empty line
Incomplete == rd.pc = "handled" /\ Terminator(rd.buffer) = 0

\* C21 (as claimed): a connection whose header block is incomplete is an
\* invalid request: it is answered with a client error status and nothing is
\* forwarded to any backend, also when its first line is a valid POST line of
\* the chat path.
C21_IncompleteRejected ==
    Incomplete =>
        /\ conn.connects = 0 /\ conn.wrote = <<>>
        /\ conn.pc = "done" => conn.status = "400"

\* what handle_client does with it: only a connection that sent no byte is
\* answered 400; one with a first line is routed by that line, and when it is
\* proxied the bytes that came are written to the backend followed by an
\* empty line the client never sent
C21_FirstLineDecides ==
    (Incomplete /\ conn.pc = "done") =>
        IF rd.buffer = <<>>
        THEN conn.status = "400" /\ conn.connects = 0
        ELSE /\ conn.status \in {"503", "relayed", "error"}
             /\ conn.connects = 1
             /\ conn.status = "relayed" => conn.wrote = rd.buffer \o Crlf \o Crlf

\* C23 (as claimed): the bytes written to the backend are exactly the bytes
\* received from the client, nothing added, dropped or altered, and the bytes
\* written to the client are exactly the bytes the backend sent until it
\* closed.
C23_BytesUnaltered ==
    (rd.pc = "handled" /\ conn.status = "relayed") =>
        /\ conn.wrote = rd.buffer
        /\ conn.relayed = conn.response.some

\* what is written: the header block as a lossily decoded string, an empty
\* line, and the bytes of the buffer from that string's length plus four; it
\* is the buffer when the header block is complete and valid UTF-8
C23_StringThenOffset ==
    (rd.pc = "handled" /\ conn.status = "relayed") =>
        /\ conn.wrote = rd.headers \o Crlf \o Crlf \o rd.body
        /\ conn.relayed = conn.response.some
        /\ (Terminator(rd.buffer) # 0 /\ from_utf8_lossy(rd.buffer) = rd.buffer)
                => conn.wrote = rd.buffer

\* the three writes to the backend are complete
Forwarded(c) ==
    c.wrote = c.req.some.headers \o Crlf \o Crlf \o c.req.some.raw_body

\* a byte is relayed only by the copy, after the three writes, and is the
\* backend's next byte
RelayStep ==
    (conn.pc # "closed" /\ conn'.pc # "closed" /\ conn'.relayed # conn.relayed) =>
        /\ conn.pc = "relaying" /\ Forwarded(conn) /\ conn'.wrote = conn.wrote
        /\ Len(conn.relayed) < Len(conn.response.some)
        /\ conn'.relayed = Append(conn.relayed, conn.response.some[Len(conn.relayed) + 1])

\* C25: within a proxied request the header block, the delimiter and the
\* body are completely written to the backend before any response byte is
\* relayed to the client; relaying goes on until the backend closes; and once
\* the backend connection is established no locally generated status is sent.
C25_ForwardThenRelay ==
    /\ []((conn.relayed # <<>> \/ conn.pc = "relaying" \/ conn.status = "relayed")
            => Forwarded(conn))
    /\ [](conn.status = "relayed" => conn.relayed = conn.response.some)
    /\ [](conn.response # None => conn.status \in {"none", "relayed", "error"})
    /\ [][RelayStep]_vars

\* C25 witness: a request with a body was forwarded and the two bytes of
\* the backend's response were relayed before it closed.
C25_Witness ==
    /\ rd.pc = "handled" /\ conn.status = "relayed"
    /\ conn.req.some.raw_body # <<>>
    /\ conn.relayed = <<"s", "t">>

\* exact (unbounded) sums of weights, in the pair representation
ExactAdd(a, b) ==
    LET r == a[2] + b[2] IN <<a[1] + b[1] + (r \div Limb), r % Limb>>

RECURSIVE Cumulative(_, _)
Cumulative(svcs, n) ==
    IF n = 0 THEN U32Zero
    ELSE ExactAdd(Cumulative(svcs, n - 1), ToU32(svcs[n].weight))

\* the first entry in snapshot order whose cumulative weight exceeds r
FirstExceeding(svcs, r) ==
    CHOOSE i \in 1..Len(svcs) :
        /\ U32Lt(r, Cumulative(svcs, i))
        /\ \A j \in 1..(i - 1) : ~U32Lt(r, Cumulative(svcs, j))

PositiveTotal(svcs) == \E i \in 1..Len(svcs) : svcs[i].weight > 0
AllZero(svcs) == Len(svcs) > 0 /\ \A i \in 1..Len(svcs) : svcs[i].weight = 0

\* the possible draws that select entry i
DrawsSelecting(svcs, i) ==
    { d \in gen_range(total_weight(svcs).val) :
        select_after_draw(build, svcs, d).idx = i }

\* C8 (as claimed): for every snapshot with positive total weight the
\* selection draws r in [0, total) and returns the first entry whose
\* cumulative weight exceeds r; exactly weight(e) of the possible draws
\* select e (counted for the entries of small weight), and an entry of
\* weight 0 is never selected.
C8_WeightedSelection ==
    (sel.pc \in {"draw", "returned", "panicked"} /\ PositiveTotal(sel.snapshot)) =>
        /\ sel.pc # "panicked"
        /\ sel.pc = "returned" =>
              /\ sel.result.some.kind = "walk"
              /\ sel.result.some.idx = FirstExceeding(sel.snapshot, sel.choice.some)
              /\ sel.snapshot[sel.result.some.idx].weight > 0
        /\ sel.pc = "draw" =>
              \A i \in 1..Len(sel.snapshot) :
                  sel.snapshot[i].weight <= 2 =>
                      Cardinality(DrawsSelecting(sel.snapshot, i)) = sel.snapshot[i].weight

\* What holds of select_service where the u32 sum does not overflow.
SelectionWithoutOverflow ==
    ~total_weight(sel.snapshot).overflow => C8_WeightedSelection

\* the exact sum of the weights of a snapshot
ExactTotal(svcs) == Cumulative(svcs, Len(svcs))

\* select_service was called on a snapshot with entries
Selecting == sel.pc \in {"draw", "returned", "panicked"} /\ Len(sel.snapshot) > 0

\* C34 (as claimed): for every snapshot of u32 weights the total used for
\* the draw is the exact sum of the weights, also when the sum is larger than
\* 2^32 - 1, so that selection never falls back to the first entry while some
\* weight is positive.
C34_ExactTotal ==
    Selecting =>
        /\ sel.pc # "panicked"
        /\ total_weight(sel.snapshot).val = ExactTotal(sel.snapshot)
        /\ (sel.pc = "returned" /\ PositiveTotal(sel.snapshot)) =>
                sel.result.some.kind = "walk"

\* what select_service computes: the sum in u32.  It is the exact sum while
\* that fits; beyond 2^32 - 1 a build with overflow checks panics in the sum
\* and one without goes on with the sum modulo 2^32, which is 0 for some
\* snapshots of positive weights, and those return the first entry
C34_TotalModulo ==
    Selecting =>
        LET exact == ExactTotal(sel.snapshot)
            total == total_weight(sel.snapshot)
        IN  /\ total.overflow <=> exact[1] >= 4
            /\ total.val = <<exact[1] % 4, exact[2]>>
            /\ sel.pc = "panicked" <=> (total.overflow /\ overflow_checks)
            /\ (sel.pc = "returned" /\ PositiveTotal(sel.snapshot)) =>
                    IF total.val = U32Zero
                    THEN sel.result.some.kind = "zero_total" /\ sel.result.some.idx = 1
                    ELSE sel.result.some.kind = "walk"

\* C35: the walk that decrements the draw with saturating_sub (main.v0.rs)
\* and the walk that decrements it with a plain subtraction (main.rs) return
\* the same entry for every snapshot and every draw r in [0, total), and in
\* neither is the closing fall-back to the first entry reached when the total
\* is positive.
C35_WalksAgree ==
    (sel.pc = "draw" /\ sel.result.some.kind = "draw") =>
        \A r \in gen_range(total_weight(sel.snapshot).val) :
            /\ select_after_draw("v0", sel.snapshot, r)
                    = select_after_draw("main", sel.snapshot, r)
            /\ select_after_draw(build, sel.snapshot, r).kind = "walk"
            /\ select_after_draw(build, sel.snapshot, r).idx
                    = FirstExceeding(sel.snapshot, r)
            /\ Walk("main", sel.snapshot, 1, r) # 0

\* C35 witness: the saturating walk has passed two entries of positive
\* weight, decrementing the draw twice, and returned the third.
C35_Witness ==
    /\ sel.pc = "returned" /\ build = "v0" /\ sel.result.some.kind = "walk"
    /\ sel.result.some.idx = 3
    /\ sel.snapshot[1].weight > 0 /\ sel.snapshot[2].weight > 0
    /\ sel.choice.some # U32Zero

IsProxied(c) ==
    /\ c.pc \in {"selected", "connecting", "write_headers", "write_delimiter",
                "write_body", "relaying", "done", "panicked"}
    /\ c.req.some.tokens = 3
    /\ c.req.some.method = "POST"
    /\ c.req.some.path = ChatPath

C10_EmptyPool503 ==
    (IsProxied(conn) /\ conn.snapshot = <<>>) =>
        /\ conn.how = "none" /\ conn.selected = None
        /\ conn.pc = "done" /\ conn.status = "503"
        /\ conn.connects = 0 /\ conn.address = None

\* C10 witness: such a request was answered.
C10_Witness ==
    /\ IsProxied(conn) /\ conn.snapshot = <<>>
    /\ conn.pc = "done" /\ conn.status = "503"

\* the task of the connection is between its selection and its end
InFlight(c) == c.pc \notin {"closed", "received", "done", "panicked"}

\* a step of the handler that holds a selection keeps it, and a connect that
\* fails ends the task with 503 after that one attempt
OneAttempt ==
    /\ (InFlight(conn) /\ conn.selected # None) => conn'.selected = conn.selected
    /\ (conn.pc = "connecting" /\ conn' # conn /\ conn'.response = None) =>
            /\ conn'.pc = "done" /\ conn'.status = "503"
            /\ conn'.connects = 1 /\ conn'.wrote = <<>>

\* C22: a proxied request selects at most one backend and makes at most one
\* connect attempt; when the connect fails the answer is 503, with no retry
\* and no second selection.
C22_OneSelectionOneConnect ==
    /\ [](conn.connects <= 1)
    /\ [](conn.connects = 1 => IsProxied(conn) /\ conn.selected # None)
    /\ [][OneAttempt]_vars

\* C22 witness: the connect to the selected backend failed and the request
\* was answered 503.
C22_Witness ==
    /\ IsProxied(conn) /\ conn.selected # None /\ conn.connects = 1
    /\ conn.response = None /\ conn.pc = "done" /\ conn.status = "503"

\* the endpoint of a registry entry of main.v0.rs
Endpoint(s) == <<s.ip, s.port>>

\* C24: the connection goes to the endpoint the selected entry had in the
\* snapshot, and a request that found a non-empty snapshot is answered 503
\* only when that connect fails, whatever other tasks do to the registry
\* between the snapshot and the connect.
C24_SnapshotEndpoint ==
    (build = "v0" /\ IsProxied(conn) /\ conn.snapshot # <<>> /\ conn.how # "panic") =>
        /\ conn.address # None => conn.address = Some(Endpoint(conn.selected.some))
        /\ conn.status = "503" => conn.connects = 1

\* what main.v0.rs does: the endpoint is the one the registry holds for the
\* selected name at the second lookup, and the answer is 503 without a
\* connect when the name is gone by then
LookupEndpoint ==
    (build = "v0" /\ conn.pc = "selected" /\ conn' # conn) =>
        LET i == Find(services, conn.selected.some.name)
        IN  IF i = 0
            THEN conn'.pc = "done" /\ conn'.status = "503" /\ conn'.connects = 0
            ELSE conn'.pc = "connecting" /\ conn'.address = Some(Endpoint(services[i]))

C24_EndpointAtLookup == [][LookupEndpoint]_vars

-----------------------------------------------------------------------------
(* Claims about the Reconciler (Spec, LiveSpec) *)

RegistryEntries == { services[i] : i \in 1..Len(services) }

\* the registry holds exactly the desired entries, each once
RegistryMatches ==
    /\ RegistryEntries = Desired(cluster)
    /\ Len(services) = Cardinality(Desired(cluster))

\* the pass has issued all its calls and is about to return
PassDone(p) == p.pc = "sync" /\ PendingCalls(p) = {}

\* the pass obtained both its inputs, all its calls went through with a
\* success status, and neither the cluster nor another client interfered
CleanPass(p) == p.fetched /\ p.clean /\ p.alone

\* C3: for every desired state and every registry, when all the calls of a
\* pass succeed and no other writer intervenes, the registry after the pass
\* holds exactly the desired entries (names, weights and endpoints).
C3_OnePassConverges ==
    (PassDone(w) /\ CleanPass(w)) => RegistryMatches

\* C3 witness: desired {X, Y} and registry {Y, Z}: the pass registered X,
\* removed Z, left Y alone, and the registry matches.
C3_Witness ==
    /\ PassDone(w) /\ CleanPass(w)
    /\ ListedNames(cluster) = {"X", "Y"}
    /\ NameSet(w.before) = {"Y", "Z"}
    /\ w.issued = { <<"register", "X">>, <<"unregister", "Z">> }
    /\ RegistryMatches

\* the calls a pass would issue on the current cluster and registry
FreshDiff ==
    { <<"register", n>> : n \in missing_services(Desired(cluster), RegistryEntries) }
    \cup { <<"unregister", n>> : n \in stale_services(Desired(cluster), RegistryEntries) }
    \cup { <<"update", n>> : n \in changed_services(Desired(cluster), RegistryEntries) }

\* C4: with the desired state unchanged and no other writer, a pass whose
\* calls succeed ends in a fixed point of the diff, and every later pass
\* that obtains the same two inputs issues no register and no unregister.
C4_Idempotent ==
    /\ (PassDone(w) /\ CleanPass(w)) => FreshDiff = {}
    /\ (w.pc = "sync" /\ w.settled /\ w.fetched) =>
            (w.issued = {} /\ PendingCalls(w) = {})

\* C4 witness: a pass over three registered services right after a pass
\* that settled them.
C4_Witness ==
    /\ w.pc = "sync" /\ w.settled /\ w.fetched
    /\ Cardinality(w.lb) = 3 /\ Cardinality(w.k8s) = 3
    /\ PassDone(w)

\* C5 (as claimed): when listing the desired entries fails, the pass issues
\* no register and no unregister and leaves the registry as it was.
C5_ListFailureAbandons ==
    (w.pc = "sync" /\ ~w.list_ok) =>
        /\ w.issued = {} /\ PendingCalls(w) = {}
        /\ w.alone => services = w.before

\* C6 (as claimed): no pass unregisters a name that the cluster listed as
\* desired when the pass fetched it, also when its address did not resolve.
C6_UnregistersOnlyUndesired ==
    w.pc = "sync" =>
        \A call \in w.issued : call[1] = "unregister" => call[2] \notin w.listed

\* C7: once the cluster has stopped changing and the calls go through,
\* whatever the registry held and whatever notifications still arrive, the
\* registry eventually equals the desired state and stays equal to it.
C7_EventualConvergence == <>[]RegistryMatches

\* C7 witness: a deletion was notified for a service the cluster still has;
\* the pass that followed has put all three desired entries back.
C7_Witness ==
    /\ w.pc = "idle" /\ w.context = "post-deregistration" /\ w.settled
    /\ ListedNames(cluster) = Names
    /\ world.events = 0
    /\ RegistryMatches

\* the calls a diff of desired against registered entries has to issue, by
\* name: register what is only desired, unregister what is only registered,
\* register again what is in both with another weight, ip or port
ExpectedCalls(desired, registered) ==
    { <<"register", e.name>> : e \in { d \in desired : d.name \notin MapNames(registered) } }
    \cup { <<"unregister", e.name>> : e \in { r \in registered : r.name \notin MapNames(desired) } }
    \cup { <<"update", e.name>> : e \in { d \in desired :
                \E r \in registered :
                    /\ r.name = d.name
                    /\ <<r.weight, r.ip, r.port>> # <<d.weight, d.ip, d.port>> } }

\* a call of the pass that is delivered leaves the registry with the desired
\* values of the name, or without the name
CallEffect ==
    \A call \in w'.issued \ w.issued :
        (w.pc = "sync" /\ w'.pc = "sync" /\ world'.disturbances = world.disturbances) =>
            IF call[1] = "unregister"
            THEN call[2] \notin NameSet(services')
            ELSE \E i \in 1..Len(services') : services'[i] = MapGet(w.k8s, call[2])

\* C26: a pass of the diff routine issues exactly a register for every
\* desired name that is not registered, an unregister for every registered
\* name that is not desired, a register with the desired values for every
\* name found in both with another weight, ip or port, and nothing for a name
\* whose entries are equal.
C26_DiffCalls ==
    /\ [](w.pc = "sync" =>
            /\ w.issued \subseteq ExpectedCalls(w.k8s, w.lb)
            /\ PassDone(w) => w.issued = ExpectedCalls(w.k8s, w.lb))
    /\ [][CallEffect]_vars

\* C26 witness: a pass has issued one call of each of the three kinds.
C26_Witness ==
    /\ PassDone(w)
    /\ \E a, b, c \in Names :
            w.issued = {<<"register", a>>, <<"unregister", b>>, <<"update", c>>}

\* C26 witness of the last case: a name with equal entries on both sides got
\* no call in a pass that issued others.
C26_EqualUntouched ==
    /\ PassDone(w) /\ w.issued # {}
    /\ \E e \in w.k8s \cap w.lb : \A call \in w.issued : call[2] # e.name

\* C27 (as claimed): when the registry entries cannot be obtained, by a
\* transport error or by a non-success status of GET /api/services, the pass
\* is abandoned: it issues no call.
C27_FetchFailureAbandons ==
    (w.pc = "sync" /\ w.fault.kind \in {"transport_error", "http_error"}) =>
        w.issued = {} /\ PendingCalls(w) = {}

\* what the watcher does: only an Err of get_registered_services ends the
\* pass; after a non-success status it goes on with an empty registered map,
\* so that every desired entry is registered again and nothing is removed
C27_StatusTakenAsEmpty ==
    /\ [](w.pc = "sync" => w.fault.kind # "transport_error")
    /\ []((w.pc = "sync" /\ w.fault.kind = "http_error") =>
            /\ w.lb = {}
            /\ PassDone(w) => w.issued = { <<"register", n>> : n \in MapNames(w.k8s) })
    /\ [][(w.pc = "fetch" /\ w'.pc = "idle") => services' = services]_vars

\* the calls of a pass that are about other names than n
OtherCalls(calls, n) == { call \in calls : call[2] # n }

\* C28: when the address of one desired entry does not resolve, only that
\* entry is left out of the input of the diff and the pass is not aborted:
\* every other entry is handled exactly as if the resolution had succeeded.
C28_UnresolvedLeftOut ==
    (w.pc = "sync" /\ w.fault.kind = "dns" /\ w.alone) =>
        /\ w.k8s = { e \in Desired(cluster) : e.name # w.fault.name }
        /\ OtherCalls(w.issued, w.fault.name)
                \subseteq ExpectedCalls(Desired(cluster), w.lb)
        /\ PassDone(w) =>
                OtherCalls(w.issued, w.fault.name)
                    = OtherCalls(ExpectedCalls(Desired(cluster), w.lb), w.fault.name)

\* C28 witness: the lookup of one of three desired names failed and the
\* pass went on to bring another entry up to date.
C28_Witness ==
    /\ PassDone(w) /\ w.fault.kind = "dns" /\ w.alone
    /\ Cardinality(Desired(cluster)) = 3
    /\ \E a \in Names \ {w.fault.name} : <<"update", a>> \in w.issued

\* a second case of it: the pass went on to register another name.
C28_RegistersOther ==
    /\ PassDone(w) /\ w.fault.kind = "dns" /\ w.alone
    /\ \E a \in Names \ {w.fault.name} : <<"register", a>> \in w.issued

\* the step takes a branch of the select!
Triggered ==
    /\ w.pc = "idle" /\ w'.wake.trigger # "none"
    /\ w'.wake # w.wake \/ w'.pc # w.pc \/ world'.events # world.events

\* the triggers the diff routine has to follow: the two timers, and a
\* notification whose call reached the control-plane API
NeedsPass(wake) ==
    \/ wake.trigger \in {"reconcile", "sync"}
    \/ wake.trigger \in {"applied", "deleted"} /\ wake.applied

\* the pass is in progress
InPass(p) == p.pc \in {"fetch", "sync"}

\* the handler of such a trigger goes on to the diff routine, and no other
\* branch is taken before that run has ended
PassFollows ==
    /\ (Triggered /\ NeedsPass(w'.wake)) => (w'.pc = "fetch" /\ w'.passes = 1)
    /\ InPass(w) => (w'.wake = w.wake \/ w'.pc = "idle")

\* C31: every trigger runs the diff routine: each tick of the reconcile
\* timer, each tick of the sync timer and each add/update or delete
\* notification that has been applied to the control-plane API is followed,
\* in the same wake and before any other trigger is handled, by one run of
\* the diff routine.
C31_EveryTriggerSyncs ==
    /\ [][PassFollows]_vars
    /\ [](InPass(w) => (w.wake.trigger \in {"reconcile", "sync", "applied", "deleted"}
                         /\ w.passes = 1))

\* C31 witness: the pass that follows a delivered deletion has issued a call.
C31_Witness ==
    /\ w.pc = "sync" /\ w.wake = [trigger |-> "deleted", applied |-> TRUE]
    /\ w.context = "post-deregistration" /\ w.issued # {}

\* a branch is taken, or a pass begun, only by the task waiting at the
\* select! with no pass in progress
OneAtATime ==
    ((w'.wake # w.wake /\ w'.wake.trigger # "none") \/ w'.passes > w.passes) =>
        (w.pc = "idle" /\ w.passes = 0)

\* C32: the Reconciler handles at most one of reconcile-tick, sync-tick and
\* external-event per wake and runs its handler to completion before the
\* next is taken, so it never has two diff passes in progress.
C32_OneHandlerAtATime ==
    /\ [](w.passes <= 1 /\ (w.passes = 1 <=> InPass(w)))
    /\ [][OneAtATime]_vars

\* C32 witness: a pass is in the middle of its calls while a notification
\* is waiting in the stream.
C32_Witness ==
    /\ w.pc = "sync" /\ w.issued # {} /\ PendingCalls(w) # {}
    /\ world.events > 0 /\ w.passes = 1

\* the connection's task has ended on one of the errors: a malformed
\* request line, an empty pool or an unreachable backend, an unregister of an
\* unknown name, a failed write, a panic
EndedInError(c) ==
    \/ c.pc = "panicked"
    \/ c.pc = "done" /\ c.status \in {"400", "503", "404", "error"}

\* C33: no error condition is process-fatal: after a malformed request, an
\* empty pool, an unreachable backend, an unregister of an unknown name, a
\* failed external fetch or an error on the notification channel the load
\* balancer keeps accepting connections and the Reconciler loop keeps
\* handling later triggers; neither reaches a stopped state by such an error.
C33_NoErrorIsFatal ==
    /\ EndedInError(conn) => ENABLED (\E req \in ErrRequests : Accept(req))
    /\ w.pc = "stopped" => w.wake.trigger = "ended"
    /\ w.pc = "idle" => (ENABLED SyncTick /\ ENABLED ReconcileTick)
    /\ (w.pc = "idle" /\ world.events > 0) =>
            ENABLED (\E ev \in Notifications : Notify(ev, TRUE))
    /\ InPass(w) => ENABLED WatcherStep

\* C33 witness: the backend of a chat request was unreachable and the
\* request answered 503, and the watcher, whose one failing call is spent, is
\* back at its select! after an error of the notification stream.
C33_Witness ==
    /\ conn.pc = "done" /\ conn.status = "503" /\ conn.connects = 1
    /\ w.pc = "idle" /\ w.wake.trigger = "error"
    /\ world.disturbances = 0

\* the pass follows the notification of a service object that is the one
\* the cluster has, and nothing has failed or interfered in the run
AfterNotification ==
    /\ w.pc = "sync" /\ w.wake = [trigger |-> "applied", applied |-> TRUE]
    /\ w.notified # None /\ w.notified.some = cluster[w.notified.some.name]
    /\ world.disturbances = MaxDisturbances

\* C36: the notification path and the diff path derive the same entry from
\* the same service object and the same address resolution (weight from the
\* annotation with default 1 when missing or unparsable, first declared port
\* with default 8080, first resolved address), so a diff pass that runs right
\* after a notification-driven registration of an unchanged service issues no
\* update for it.
C36_SamePayload ==
    /\ \A svc \in ClusterInputs, dns_ok \in BOOLEAN :
            register_payload(cluster, svc, dns_ok)
                = extract_service_info(cluster, svc, dns_ok)
    /\ AfterNotification =>
            /\ MapGet(w.lb, w.notified.some.name) = MapGet(w.k8s, w.notified.some.name)
            /\ \A call \in ExpectedCalls(w.k8s, w.lb) \cup w.issued \cup PendingCalls(w) :
                    call[2] # w.notified.some.name

\* C36 witness: the notified object has an annotation that is no number and
\* two declared ports; the pass after its registration has ended.
C36_Witness ==
    /\ AfterNotification /\ PassDone(w)
    /\ w.notified.some.annotation = Some("many")
    /\ Len(w.notified.some.ports) = 2

=============================================================================
